---- MODULE Spec2Model ----
(***************************************************************************)
(* A model of the agentic tool-calling loop of prometheus-mars:            *)
(* TaskWorker.agenticLoop, ToolExecutor and the LLM provider adapters.     *)
(*                                                                         *)
(* Strings are TLA+ strings (concatenated with \o); JavaScript values that *)
(* may be undefined, null or of an unexpected type are tagged records.     *)
(***************************************************************************)
EXTENDS Integers, Sequences, FiniteSets, TLC

VARIABLES
    config,        \* the LLM settings createLLMAdapter is called with
    vendor,        \* which LLMAdapter createLLMAdapter built (this.llm)
    script,        \* the provider: wire responses of the first calls
    steady,        \* the provider: wire response of every later call
    tools,         \* ToolExecutor.tools: name -> Tool
    pc,            \* position of agenticLoop
    turn,          \* the for-loop counter of agenticLoop
    messages,      \* the conversation (LLMMessage[])
    response,      \* the LLMToolResponse of the current turn
    toolUseBlocks, \* tool_use blocks of the current turn
    toolResults,   \* tool results collected in the current turn
    totalTokens,   \* accumulated token usage
    returned,      \* the string agenticLoop returned
    failure,       \* the error that left agenticLoop, if any
    modelCalls,    \* number of completeWithTools calls issued
    dispatched,    \* the ToolCalls handed to ToolExecutor.execute this turn
    executeCalls,  \* number of ToolExecutor.execute calls issued
    inFlight,      \* the awaited operations that have started and not settled
    fetches,       \* number of network requests issued
    request,       \* the body of the last completeWithTools request sent
    definitions,   \* the ToolDefinitions agenticLoop read when it started
    peer,          \* the locals of a second, suspended agenticLoop invocation
    solo,          \* the locals an invocation ended with when it ran alone
    registered,    \* every Tool handed to ToolExecutor.register, in call order
    probe,         \* the last direct call of an operation, and how it settled
    running,       \* PrometheusAgent.running
    toolExecutor,  \* TaskWorker.toolExecutor: null, or the attached executor
    hostPc,        \* position of the caller of solveTask: taskLoop and runOnce
    task,          \* the task runOnce claimed
    solution,      \* what solveTask or solveDirectTask returned
    didWork,       \* how the last runOnce settled
    waitMs,        \* the delay of the last sleep of taskLoop
    polls,         \* number of runOnce calls made
    solves,        \* number of solveTask and solveDirectTask calls made
    completeCalls, \* number of complete calls issued
    submissions,   \* the submitResult calls made: task id and solution
    runLog,        \* the requests and the solve of the runOnce in progress
    stopped,       \* stop() has been called on the agent
    heartbeatHandle, \* this.heartbeatHandle
    timers,        \* the intervals scheduled with setInterval
    beats,         \* number of beat() calls started
    beating,       \* number of beats awaiting client.heartbeat()
    beatLog,       \* what the beats printed, and rejections nobody handles
    disk           \* the file system the file tools work on

vars == <<config, vendor, script, steady, tools, pc, turn, messages, response,
          toolUseBlocks, toolResults, totalTokens, returned, failure,
          modelCalls, dispatched, executeCalls, inFlight, fetches, request,
          definitions, peer, solo, registered, probe, running, toolExecutor,
          hostPc, task, solution, didWork, waitMs, polls, solves,
          completeCalls, submissions, runLog, stopped, heartbeatHandle,
          timers, beats, beating, beatLog, disk>>

\* the agent's shutdown flag and its heartbeat
beatVars == <<stopped, heartbeatHandle, timers, beats, beating, beatLog>>

\* the fields and locals of PrometheusAgent and of TaskWorker's task methods
hostVars == <<running, toolExecutor, hostPc, task, solution, didWork, waitMs,
              polls, solves, completeCalls, submissions, runLog, beatVars>>

\* what agenticLoop never assigns
environment ==
    <<config, vendor, script, steady, definitions, peer, solo, registered, probe,
      hostVars, disk>>

-----------------------------------------------------------------------------
(* Bounds and program constants *)

\* number of leading model calls whose wire response is chosen freely
FreeTurns == 1

MAX_AGENT_TURNS == 25

WARNING_MARKER == "[Warning: Agent reached maximum turns limit]"

FALLBACK == "[Agent reached maximum turns without producing a final answer]"

PLACEHOLDER_TEXT == "[LLM response placeholder -- configure LLM_API_KEY to enable]"

-----------------------------------------------------------------------------
(* JavaScript values *)

Undefined == [t |-> "undefined"]

Null == [t |-> "null"]

Num(n) == [t |-> "number", v |-> n]

Str(s) == [t |-> "string", v |-> s]

Obj(fields) == [t |-> "object", v |-> fields]

Bool(b) == [t |-> "boolean", v |-> b]

Arr(items) == [t |-> "array", v |-> items]

\* String(v) of a thrown non-Error value
JSString(v) == IF v.t = "string" THEN v.v ELSE v.t

\* the decimal text of an HTTP status in a template string
StatusText(n) ==
    CASE n = 500 -> "500"
      [] n = 429 -> "429"
      [] OTHER   -> "400"

\* a ?? b
Nullish(a, b) == IF a = Undefined \/ a = Null THEN b ELSE a

\* outcome of a call: a returned value or a thrown error
Return(v) == [threw |-> FALSE, value |-> v]

Throw(kind, msg) == [threw |-> TRUE, kind |-> kind, message |-> msg]

\* throw of a value that is not an Error instance
ThrowValue(v) == [threw |-> TRUE, kind |-> "value", thrown |-> v]

\* s.includes(sub)
Contains(s, sub) ==
    \E i \in 1..(Len(s) - Len(sub) + 1) : SubSeq(s, i, i + Len(sub) - 1) = sub

\* Array.prototype.join over an array of strings
RECURSIVE Join(_, _)
Join(strs, sep) ==
    IF strs = <<>> THEN ""
    ELSE IF Len(strs) = 1 THEN strs[1]
    ELSE strs[1] \o sep \o Join(Tail(strs), sep)

\* JSON.stringify(v): undefined for undefined, a string otherwise
JSONStringify(v) ==
    CASE v.t = "undefined" -> Undefined
      [] v.t = "null"      -> Str("null")
      [] v.t = "string"    -> Str("\"" \o v.v \o "\"")
      [] v.t = "object"    ->
            Str(IF "msg" \in DOMAIN v.v
                THEN "{\"msg\":\"" \o v.v.msg \o "\"}"
                ELSE "{\"path\":\"" \o v.v.path \o "\"}")

\* JSON.parse(text): the value, or a SyntaxError
JSONParse(text) ==
    CASE text = "{\"msg\":\"hi\"}"  -> Return(Obj([msg |-> "hi"]))
      [] text = "{\"path\":\"a\"}"  -> Return(Obj([path |-> "a"]))
      [] text = "null"              -> Return(Null)
      [] text = "\"hi\""            -> Return(Str("hi"))
      [] text = "{\"success\":true,\"data\":[]}" ->
            Return(Obj([success |-> Bool(TRUE), data |-> Arr(<<>>)]))
      [] text = "{\"success\":false,\"error\":\"not found\"}" ->
            Return(Obj([success |-> Bool(FALSE), error |-> Str("not found")]))
      [] text = "{\"success\":true,\"error\":\"partial\"}" ->
            Return(Obj([success |-> Bool(TRUE), error |-> Str("partial")]))
      [] text = "{\"error\":\"denied\"}" ->
            Return(Obj([error |-> Str("denied")]))
      [] text = "{\"message\":\"Internal\"}" ->
            Return(Obj([message |-> Str("Internal")]))
      [] OTHER                      -> Throw("SyntaxError", "Unexpected end of JSON input")

-----------------------------------------------------------------------------
(* The file tools: read_file and write_file, and the file system *)

\* 256 * 1024
MAX_SIZE == 262144

\* a file system: files with their text and size, and directories; a path is
\* the sequence of its segments below the root
InitialDisk ==
    [files |-> { [path |-> <<"work", "a">>, text |-> "hello", size |-> 5],
                 [path |-> <<"work", "work">>, text |-> "big", size |-> MAX_SIZE + 1],
                 [path |-> <<"work-evil", "a">>, text |-> "secret", size |-> 6],
                 [path |-> <<"etc", "a">>, text |-> "secret", size |-> 6] },
     dirs |-> { <<>>, <<"work">>, <<"work-evil">>, <<"etc">> }]

\* the names a path segment is drawn from
Segments == {"..", "a", "work", "work-evil"}

\* number of segments of an input path
MaxSegments == 2

\* number of files the file system holds at most
MaxFiles == 5

\* input.path: an absolute or relative path of one or more segments
InputPaths ==
    [absolute : BOOLEAN,
     segs : UNION { [1..n -> Segments] : n \in 1..MaxSegments }]

\* String(input.path)
PathText(p) == (IF p.absolute THEN "/" ELSE "") \o Join(p.segs, "/")

\* the workDir a tool is created with: its text and the directory it names
WorkDirs ==
    { [text |-> "/work", segs |-> <<"work">>],
      [text |-> "/work/", segs |-> <<"work">>] }

\* path normalisation: a ".." segment removes the segment before it
RECURSIVE Normalise(_, _)
Normalise(acc, rest) ==
    IF rest = <<>> THEN acc
    ELSE IF Head(rest) = ".."
    THEN Normalise(IF acc = <<>> THEN <<>> ELSE SubSeq(acc, 1, Len(acc) - 1),
                   Tail(rest))
    ELSE Normalise(Append(acc, Head(rest)), Tail(rest))

\* path.resolve(workDir, filePath): an absolute filePath replaces workDir
PathResolve(workDir, p) ==
    Normalise(<<>>, IF p.absolute THEN p.segs ELSE workDir.segs \o p.segs)

\* the text of a resolved path
AbsoluteText(segs) == "/" \o Join(segs, "/")

\* String.prototype.startsWith
StartsWith(s, prefix) ==
    Len(s) >= Len(prefix) /\ SubSeq(s, 1, Len(prefix)) = prefix

\* safePath: the resolved path, or the path-traversal error (its dash is
\* U+2014 in the source)
safePath(workDir, p) ==
    LET resolved == PathResolve(workDir, p)
    IN  IF ~StartsWith(AbsoluteText(resolved), workDir.text)
        THEN Throw("Error",
                   "Path traversal blocked - file must be within working directory")
        ELSE Return(resolved)

\* path.dirname of a resolved path
Dirname(segs) == IF segs = <<>> THEN <<>> ELSE SubSeq(segs, 1, Len(segs) - 1)

\* a directory and every directory above it
Ancestors(segs) == { SubSeq(segs, 1, n) : n \in 0..Len(segs) }

IsFile(d, path) == \E f \in d.files : f.path = path

FileAt(d, path) == CHOOSE f \in d.files : f.path = path

\* fs.existsSync
ExistsSync(d, path) == IsFile(d, path) \/ path \in d.dirs

\* the decimal text of the sizes in use
SizeText(n) == IF n = MAX_SIZE THEN "262144" ELSE "262145"

\* read_file's execute: how it settles, the paths it hands to fs, the disk
FileRead(workDir, p, d) ==
    LET checked == safePath(workDir, p)
        f == checked.value
    IN  IF checked.threw
        THEN [outcome |-> checked, touched |-> {}, disk |-> d]
        ELSE IF ~ExistsSync(d, f)
        THEN [outcome |-> Throw("Error", "File not found: " \o PathText(p)),
              touched |-> {f}, disk |-> d]
        ELSE IF ~IsFile(d, f)
        THEN [outcome |-> Throw("Error",
                                "EISDIR: illegal operation on a directory, read"),
              touched |-> {f}, disk |-> d]
        ELSE IF FileAt(d, f).size > MAX_SIZE
        THEN [outcome |-> Throw("Error",
                                "File too large (" \o SizeText(FileAt(d, f).size)
                                \o " bytes, max " \o SizeText(MAX_SIZE) \o ")"),
              touched |-> {f}, disk |-> d]
        ELSE [outcome |-> Return(FileAt(d, f).text), touched |-> {f}, disk |-> d]

\* write_file's execute: mkdirSync of the parent, then writeFileSync
FileWrite(workDir, p, content, d) ==
    LET checked == safePath(workDir, p)
        f == checked.value
        dir == Dirname(f)
        made == [d EXCEPT !.dirs = @ \cup Ancestors(dir)]
    IN  IF checked.threw
        THEN [outcome |-> checked, touched |-> {}, disk |-> d]
        ELSE IF \E a \in Ancestors(dir) : IsFile(d, a)
        THEN [outcome |-> Throw("Error", "ENOTDIR: not a directory, mkdir"),
              touched |-> {dir}, disk |-> d]
        ELSE IF f \in made.dirs
        THEN [outcome |-> Throw("Error",
                                "EISDIR: illegal operation on a directory, open"),
              touched |-> {dir, f}, disk |-> made]
        ELSE [outcome |-> Return("File written: " \o PathText(p)),
              touched |-> {dir, f},
              disk |-> [made EXCEPT !.files =
                          { g \in @ : g.path # f }
                          \cup {[path |-> f, text |-> content,
                                 size |-> Len(content)]}]]

-----------------------------------------------------------------------------
(* Tools and the ToolExecutor *)

\* a Tool: its definition and what its execute does
Tool(name, behaviour) ==
    [definition |-> [name |-> name, description |-> behaviour],
     behaviour |-> behaviour]

\* tool.execute(input): the output string, or what it throws
ToolExecute(tool, input) ==
    CASE tool.behaviour = "echo" ->
            IF input.t \in {"null", "undefined"}
            THEN Throw("TypeError", "Cannot read properties of " \o input.t)
            ELSE IF input.t = "object" /\ "msg" \in DOMAIN input.v
            THEN Return(input.v.msg)
            ELSE Return("undefined")
      [] tool.behaviour = "throwError" -> Throw("Error", "boom")
      [] tool.behaviour = "throwValue" -> ThrowValue(Str("oops"))

\* Map.prototype.has / get on the insertion-ordered tool map
MapHas(map, name) == \E i \in 1..Len(map) : map[i].definition.name = name

MapGet(map, name) ==
    map[CHOOSE i \in 1..Len(map) : map[i].definition.name = name]

\* Map.prototype.set: a known key keeps its position and takes the new value
MapSet(map, name, tool) ==
    IF MapHas(map, name)
    THEN [i \in 1..Len(map) |->
            IF map[i].definition.name = name THEN tool ELSE map[i]]
    ELSE Append(map, tool)

\* ToolExecutor.register with a plain append: earlier registrations stay
register_Append(map, tool) == Append(map, tool)

\* ToolExecutor.register
register(map, tool) == MapSet(map, tool.definition.name, tool)

\* only the first tool is declared
getDefinitions_First(map) == [i \in 1..(IF map = <<>> THEN 0 ELSE 1) |-> map[i].definition]

\* ToolExecutor.getDefinitions
getDefinitions(map) == [i \in 1..Len(map) |-> map[i].definition]

\* a catch clause that reports every failure with the same words
ErrorMessage_Generic(err) == "tool failed"

\* err instanceof Error ? err.message : String(err)
ErrorMessage(err) == IF err.kind = "value" THEN JSString(err.thrown) ELSE err.message

\* the result for an unknown tool, without the requested name
UnknownTool_NoName(call) ==
    [tool_use_id |-> call.id, content |-> "Unknown tool", is_error |-> Bool(TRUE)]

\* line 24-30: the result for a name the registry does not hold
UnknownTool(call) ==
    [tool_use_id |-> call.id,
     content |-> "Unknown tool: " \o call.name,
     is_error |-> Bool(TRUE)]

\* ToolExecutor.execute(call) without its try/catch: the tool's throw escapes
ToolExecutorExecute_NoCatch(map, call) ==
    IF ~MapHas(map, call.name)
    THEN Return(UnknownTool(call))
    ELSE LET out == ToolExecute(MapGet(map, call.name), call.input)
         IN  IF out.threw THEN out
             ELSE Return([tool_use_id |-> call.id,
                          content |-> out.value,
                          is_error |-> Undefined])

\* ToolExecutor.execute(call) on the registry `map`: how the promise settles
ToolExecutorExecute(map, call) ==
    IF ~MapHas(map, call.name)
    THEN Return(UnknownTool(call))
    ELSE LET out == ToolExecute(MapGet(map, call.name), call.input)
         IN  IF out.threw
             THEN Return([tool_use_id |-> call.id,
                          content |-> "Error: " \o ErrorMessage(out),
                          is_error |-> Bool(TRUE)])
             ELSE Return([tool_use_id |-> call.id,
                          content |-> out.value,
                          is_error |-> Undefined])

-----------------------------------------------------------------------------
(* Provider adapters: parsing the vendor's answer of completeWithTools *)

\* what fetch delivered
NetworkFailure == [kind |-> "network"]

HttpError(status, text) == [kind |-> "http", status |-> status, text |-> text]

Success(data) == [kind |-> "json", data |-> data]

TextBlock(text) == [type |-> "text", text |-> text]

ToolUseBlock(id, name, input) ==
    [type |-> "tool_use", id |-> id, name |-> name, input |-> input]

IsText(b) == b.type = "text"

IsToolUse(b) == b.type = "tool_use"

LLMToolResponse(content, stopReason, provider, tokensUsed) ==
    [content |-> content, stopReason |-> stopReason,
     provider |-> provider, tokensUsed |-> tokensUsed]

\* an error for a non-success status that drops the response body
ApiError_NoBody(name, wire) ==
    Throw("Error", name \o " API error " \o StatusText(wire.status))

\* the !res.ok branch shared by the three vendor adapters
ApiError(name, wire) ==
    Throw("Error", name \o " API error " \o StatusText(wire.status) \o ": " \o wire.text)

\* AnthropicAdapter.completeWithTools, from the fetch result on
AnthropicCompleteWithTools(wire) ==
    IF wire.kind = "network" THEN Throw("TypeError", "fetch failed")
    ELSE IF wire.kind = "http" THEN ApiError("Anthropic", wire)
    ELSE IF "content" \notin DOMAIN wire.data
    THEN Throw("TypeError", "Cannot read properties of undefined (reading 'map')")
    ELSE LET data == wire.data
             contentBlocks ==
                 [i \in 1..Len(data.content) |->
                     LET block == data.content[i]
                     IN  IF block.type = "tool_use"
                         THEN ToolUseBlock(block.id, block.name, block.input)
                         ELSE TextBlock(block.text)]
         IN  Return(LLMToolResponse(
                 contentBlocks,
                 data.stop_reason,
                 "anthropic",
                 IF data.usage # Undefined
                 THEN Num(data.usage.input_tokens + data.usage.output_tokens)
                 ELSE Undefined))

\* the tool_use blocks OpenAIAdapter builds from message.tool_calls;
\* JSON.parse throws on the first malformed arguments string
RECURSIVE OpenAIToolBlocks(_)
OpenAIToolBlocks(tool_calls) ==
    IF tool_calls = <<>> THEN Return(<<>>)
    ELSE LET tc == Head(tool_calls)
             parsed == JSONParse(tc.function.arguments)
         IN  IF parsed.threw THEN parsed
             ELSE LET rest == OpenAIToolBlocks(Tail(tool_calls))
                  IN  IF rest.threw THEN rest
                      ELSE Return(<<ToolUseBlock(tc.id, tc.function.name, parsed.value)>>
                                  \o rest.value)

\* the stopReason expression of OpenAIAdapter.completeWithTools
OpenAIStopReason(choice) ==
    IF choice.finish_reason = "tool_calls" \/ choice.message.tool_calls # Undefined
    THEN "tool_use"
    ELSE IF choice.finish_reason = "length" THEN "max_tokens"
    ELSE "end_turn"

\* OpenAIAdapter.completeWithTools, from the fetch result on
OpenAICompleteWithTools(wire) ==
    IF wire.kind = "network" THEN Throw("TypeError", "fetch failed")
    ELSE IF wire.kind = "http" THEN ApiError("OpenAI", wire)
    ELSE LET data == wire.data
         IN  IF "choices" \notin DOMAIN data
                 \/ data.choices = <<>>
                 \/ "message" \notin DOMAIN data.choices[1]
             THEN Throw("TypeError", "Cannot read properties of undefined")
             ELSE LET choice == data.choices[1]
                      text == IF choice.message.content.t = "string"
                                 /\ choice.message.content.v # ""
                              THEN <<TextBlock(choice.message.content.v)>>
                              ELSE <<>>
                      calls == IF choice.message.tool_calls # Undefined
                               THEN OpenAIToolBlocks(choice.message.tool_calls.v)
                               ELSE Return(<<>>)
                  IN  IF calls.threw THEN calls
                      ELSE Return(LLMToolResponse(
                               text \o calls.value,
                               OpenAIStopReason(choice),
                               "openai",
                               IF data.usage # Undefined
                               THEN Num(data.usage.total_tokens)
                               ELSE Undefined))

\* the blocks GoogleAdapter builds from the candidate's parts; the id of a
\* functionCall is made of the clock and a random string (wire.entropy)
GoogleBlocks(parts, entropy) ==
    LET keep == SelectSeq([i \in 1..Len(parts) |-> [part |-> parts[i], at |-> i]],
                          LAMBDA p : "text" \in DOMAIN p.part
                                     \/ "functionCall" \in DOMAIN p.part)
    IN  [i \in 1..Len(keep) |->
            IF "text" \in DOMAIN keep[i].part
            THEN TextBlock(keep[i].part.text)
            ELSE ToolUseBlock("gemini_" \o entropy[keep[i].at],
                              keep[i].part.functionCall.name,
                              keep[i].part.functionCall.args)]

\* data.candidates[0]?.content?.parts, or [] where the chain is undefined
GoogleParts(data) ==
    IF data.candidates = <<>> THEN <<>>
    ELSE IF "content" \notin DOMAIN data.candidates[1] THEN <<>>
    ELSE IF "parts" \notin DOMAIN data.candidates[1].content THEN <<>>
    ELSE data.candidates[1].content.parts

\* GoogleAdapter.completeWithTools, from the fetch result on
GoogleCompleteWithTools(wire) ==
    IF wire.kind = "network" THEN Throw("TypeError", "fetch failed")
    ELSE IF wire.kind = "http" THEN ApiError("Google", wire)
    ELSE IF "candidates" \notin DOMAIN wire.data
    THEN Throw("TypeError", "Cannot read properties of undefined (reading '0')")
    ELSE LET data == wire.data
             parts == GoogleParts(data)
             blocks == GoogleBlocks(parts, wire.entropy)
             hasToolUse == \E i \in 1..Len(parts) :
                               /\ "text" \notin DOMAIN parts[i]
                               /\ "functionCall" \in DOMAIN parts[i]
         IN  Return(LLMToolResponse(
                 blocks,
                 IF hasToolUse THEN "tool_use" ELSE "end_turn",
                 "google",
                 IF data.usageMetadata # Undefined
                 THEN Num(data.usageMetadata.totalTokenCount)
                 ELSE Undefined))

\* PlaceholderAdapter.completeWithTools: no fetch at all
PlaceholderCompleteWithTools ==
    Return(LLMToolResponse(<<TextBlock(PLACEHOLDER_TEXT)>>, "end_turn",
                           "placeholder", Undefined))

\* this.llm.completeWithTools(...) of the adapter in use
completeWithTools(v, wire) ==
    CASE v = "anthropic"   -> AnthropicCompleteWithTools(wire)
      [] v = "openai"      -> OpenAICompleteWithTools(wire)
      [] v = "google"      -> GoogleCompleteWithTools(wire)
      [] v = "placeholder" -> PlaceholderCompleteWithTools

-----------------------------------------------------------------------------
(* Provider adapters: complete, the single-turn operation *)

LLMResponse(content, provider, tokensUsed) ==
    [content |-> content, provider |-> provider, tokensUsed |-> tokensUsed]

\* AnthropicAdapter.complete, from the fetch result on
AnthropicComplete(wire) ==
    IF wire.kind = "network" THEN Throw("TypeError", "fetch failed")
    ELSE IF wire.kind = "http" THEN ApiError("Anthropic", wire)
    ELSE IF "content" \notin DOMAIN wire.data
    THEN Throw("TypeError", "Cannot read properties of undefined (reading 'filter')")
    ELSE LET data == wire.data
             texts == SelectSeq(data.content, IsText)
         IN  Return(LLMResponse(
                 Join([i \in 1..Len(texts) |-> texts[i].text], ""),
                 "anthropic",
                 IF data.usage # Undefined
                 THEN Num(data.usage.input_tokens + data.usage.output_tokens)
                 ELSE Undefined))

\* OpenAIAdapter.complete: data.choices[0]?.message?.content ?? ""
OpenAIComplete(wire) ==
    IF wire.kind = "network" THEN Throw("TypeError", "fetch failed")
    ELSE IF wire.kind = "http" THEN ApiError("OpenAI", wire)
    ELSE IF "choices" \notin DOMAIN wire.data
    THEN Throw("TypeError", "Cannot read properties of undefined (reading '0')")
    ELSE LET data == wire.data
             content == IF data.choices = <<>> THEN Undefined
                        ELSE IF "message" \notin DOMAIN data.choices[1] THEN Undefined
                        ELSE data.choices[1].message.content
         IN  Return(LLMResponse(
                 Nullish(content, Str("")).v,
                 "openai",
                 IF data.usage # Undefined
                 THEN Num(data.usage.total_tokens)
                 ELSE Undefined))

\* parts.map(p => p.text).join(""): a part without text joins as ""
GoogleText(parts) ==
    Join([i \in 1..Len(parts) |->
            IF "text" \in DOMAIN parts[i] THEN parts[i].text ELSE ""], "")

\* GoogleAdapter.complete
GoogleComplete(wire) ==
    IF wire.kind = "network" THEN Throw("TypeError", "fetch failed")
    ELSE IF wire.kind = "http" THEN ApiError("Google", wire)
    ELSE IF "candidates" \notin DOMAIN wire.data
    THEN Throw("TypeError", "Cannot read properties of undefined (reading '0')")
    ELSE LET data == wire.data
         IN  Return(LLMResponse(
                 GoogleText(GoogleParts(data)),
                 "google",
                 IF data.usageMetadata # Undefined
                 THEN Num(data.usageMetadata.totalTokenCount)
                 ELSE Undefined))

\* PlaceholderAdapter.complete: no fetch at all
PlaceholderComplete ==
    Return(LLMResponse(PLACEHOLDER_TEXT, "placeholder", Undefined))

\* this.llm.complete(...) of the adapter in use
complete(v, wire) ==
    CASE v = "anthropic"   -> AnthropicComplete(wire)
      [] v = "openai"      -> OpenAIComplete(wire)
      [] v = "google"      -> GoogleComplete(wire)
      [] v = "placeholder" -> PlaceholderComplete

\* String.prototype.toLowerCase on the provider names in use
ToLowerCase(str) ==
    CASE str = "Anthropic" -> "anthropic"
      [] OTHER             -> str

\* the own keys of the PROVIDERS object literal
PROVIDERS == {"anthropic", "openai", "google"}

\* a lookup that sees the own keys of PROVIDERS only
PrototypeMember_OwnKeysOnly(key) ==
    Undefined

\* what a key that is not an own key of PROVIDERS resolves to through
\* Object.prototype: the Object function, the prototype object, or undefined
PrototypeMember(key) ==
    CASE key = "constructor" -> [t |-> "function", v |-> "Object"]
      [] key = "__proto__"   -> [t |-> "object", v |-> "Object.prototype"]
      [] OTHER               -> Undefined

\* PROVIDERS[key]: one of the three adapter classes or an inherited member
Ctor(key) ==
    IF key \in PROVIDERS THEN [t |-> "class", v |-> key]
    ELSE PrototypeMember(key)

\* new Ctor(provider, apiKey, model): an adapter of the class, the wrapper
\* object new Object(...) gives, or a TypeError when Ctor is no constructor
Construct(ctor) ==
    CASE ctor.t = "class"    -> Return(ctor.v)
      [] ctor.t = "function" -> Return("String")
      [] OTHER               -> Throw("TypeError", "Ctor is not a constructor")

\* a factory that looks at the provider name only
createLLMAdapter_IgnoreKey(provider, apiKey) ==
    IF Ctor(ToLowerCase(provider)) = Undefined THEN Return("placeholder")
    ELSE Construct(Ctor(ToLowerCase(provider)))

\* createLLMAdapter: which adapter class is instantiated, or what is thrown
createLLMAdapter(provider, apiKey) ==
    IF apiKey = "" THEN Return("placeholder")
    ELSE IF Ctor(ToLowerCase(provider)) = Undefined THEN Return("placeholder")
    ELSE Construct(Ctor(ToLowerCase(provider)))

\* provider names LLM_PROVIDER may hold
ProviderNames ==
    {"anthropic", "openai", "google", "Anthropic", "mistral", "constructor",
     "__proto__"}

\* the LLM settings the agent may be started with
Configs ==
    [provider : {"anthropic", "openai", "google", "Anthropic", "mistral"},
     apiKey : {"", "sk-test"}]

-----------------------------------------------------------------------------
(* Provider adapters: the request body completeWithTools sends *)

\* no request has been sent yet
NoRequest == [vendor |-> "none"]

\* JSON.stringify of a tool_result block: an undefined is_error is left out
SerialiseToolResult(tr) ==
    IF tr.is_error = Undefined
    THEN [type |-> "tool_result", tool_use_id |-> tr.tool_use_id,
          content |-> tr.content]
    ELSE [type |-> "tool_result", tool_use_id |-> tr.tool_use_id,
          content |-> tr.content, is_error |-> tr.is_error.v]

\* AnthropicAdapter: messages.map(m => ({role, content})), serialised
AnthropicMessages(msgs) ==
    [i \in 1..Len(msgs) |->
        [role |-> msgs[i].role,
         content |->
            IF ~msgs[i].isArray THEN Str(msgs[i].content)
            ELSE Arr([j \in 1..Len(msgs[i].content) |->
                        IF msgs[i].content[j].type = "tool_result"
                        THEN SerialiseToolResult(msgs[i].content[j])
                        ELSE msgs[i].content[j]])]]

\* a translation that sends every tool result of a turn as one user message
OpenAIMessagesOf_OneUserTurn(msg) ==
    IF msg.role = "assistant" /\ msg.isArray
    THEN LET uses == SelectSeq(msg.content, IsToolUse)
         IN  << [role |-> "assistant"]
                @@ (IF uses # <<>>
                    THEN [tool_calls |->
                            [j \in 1..Len(uses) |->
                                [id |-> uses[j].id, type |-> "function",
                                 function |->
                                    [name |-> uses[j].name,
                                     arguments |-> JSONStringify(uses[j].input)]]]]
                    ELSE <<>>) >>
    ELSE << [role |-> msg.role, content |-> msg.content] >>

\* OpenAIAdapter: the wire messages one LLMMessage becomes
OpenAIMessagesOf(msg) ==
    IF msg.role = "user" /\ msg.isArray /\ msg.content # <<>>
       /\ msg.content[1].type = "tool_result"
    THEN [j \in 1..Len(msg.content) |->
            [role |-> "tool",
             tool_call_id |-> msg.content[j].tool_use_id,
             content |-> msg.content[j].content]]
    ELSE IF msg.role = "assistant" /\ msg.isArray
    THEN LET texts == SelectSeq(msg.content, IsText)
             textParts == Join([j \in 1..Len(texts) |-> texts[j].text], "")
             uses == SelectSeq(msg.content, IsToolUse)
             toolCalls ==
                 [j \in 1..Len(uses) |->
                    [id |-> uses[j].id, type |-> "function",
                     function |-> [name |-> uses[j].name,
                                   arguments |-> JSONStringify(uses[j].input)]]]
         IN  << [role |-> "assistant"]
                @@ (IF textParts # "" THEN [content |-> textParts] ELSE <<>>)
                @@ (IF toolCalls # <<>> THEN [tool_calls |-> toolCalls] ELSE <<>>) >>
    ELSE << [role |-> msg.role, content |-> msg.content] >>

\* OpenAIAdapter: the conversation messages, in order
RECURSIVE OpenAIConversation(_)
OpenAIConversation(msgs) ==
    IF msgs = <<>> THEN <<>>
    ELSE OpenAIMessagesOf(Head(msgs)) \o OpenAIConversation(Tail(msgs))

\* OpenAIAdapter: the system message, then every conversation message
OpenAIMessages(system, msgs) ==
    <<[role |-> "system", content |-> system]>> \o OpenAIConversation(msgs)

\* GoogleAdapter: the part one content block becomes
GooglePartOf(block) ==
    CASE block.type = "text" -> [text |-> block.text]
      [] block.type = "tool_use" ->
            [functionCall |-> [name |-> block.name, args |-> block.input]]
      [] block.type = "tool_result" ->
            [functionResponse |->
                [name |-> "tool", response |-> [content |-> block.content]]]

\* GoogleAdapter: contents
GoogleContents(msgs) ==
    [i \in 1..Len(msgs) |->
        [role |-> IF msgs[i].role = "assistant" THEN "model" ELSE "user",
         parts |-> IF ~msgs[i].isArray THEN <<[text |-> msgs[i].content]>>
                   ELSE [j \in 1..Len(msgs[i].content) |->
                            GooglePartOf(msgs[i].content[j])]]]

\* OpenAIAdapter: tools.map(t => ({type: "function", function: {...}}))
OpenAITools(defs) ==
    [i \in 1..Len(defs) |->
        [type |-> "function",
         function |-> [name |-> defs[i].name, description |-> defs[i].description]]]

\* GoogleAdapter: [{functionDeclarations: tools.map(...)}]
GoogleTools(defs) ==
    << [functionDeclarations |->
          [i \in 1..Len(defs) |->
              [name |-> defs[i].name, description |-> defs[i].description]]] >>

\* the body of the request of completeWithTools, per adapter; the tools
\* member is set only for a non-empty tool list
Request(v, system, msgs, defs) ==
    CASE v = "anthropic" ->
            [vendor |-> v, system |-> system, messages |-> AnthropicMessages(msgs),
             tools |-> IF defs # <<>> THEN Arr(defs) ELSE Undefined]
      [] v = "openai" ->
            [vendor |-> v, messages |-> OpenAIMessages(system, msgs),
             tools |-> IF defs # <<>> THEN Arr(OpenAITools(defs)) ELSE Undefined]
      [] v = "google" ->
            [vendor |-> v, system |-> system, contents |-> GoogleContents(msgs),
             tools |-> IF defs # <<>> THEN Arr(GoogleTools(defs)) ELSE Undefined]
      [] v = "placeholder" -> NoRequest

-----------------------------------------------------------------------------
(* The providers: what each vendor may answer to one completeWithTools *)

Usage(n, m) == [input_tokens |-> n, output_tokens |-> m]

AnthropicData(content, stop_reason, usage) ==
    Success([content |-> content, stop_reason |-> stop_reason, usage |-> usage])

AnthropicWire ==
    { AnthropicData(<<TextBlock("Hello.")>>, "end_turn", Usage(2, 3)),
      AnthropicData(<<TextBlock("A"), TextBlock("B")>>, "max_tokens", Undefined),
      AnthropicData(<<TextBlock("Checking"),
                      ToolUseBlock("tu_1", "echo", Obj([msg |-> "hi"]))>>,
                    "tool_use", Usage(1, 1)),
      AnthropicData(<<ToolUseBlock("tu_2", "missing_tool", Obj([path |-> "a"]))>>,
                    "tool_use", Undefined),
      AnthropicData(<<ToolUseBlock("tu_1", "echo", Obj([msg |-> "hi"])),
                      TextBlock("and"),
                      ToolUseBlock("tu_3", "boom", Obj([path |-> "a"]))>>,
                    "tool_use", Usage(1, 1)),
      AnthropicData(<<TextBlock("Partial"),
                      ToolUseBlock("tu_1", "echo", Obj([msg |-> "hi"]))>>,
                    "max_tokens", Undefined),
      AnthropicData(<<TextBlock("Hello.")>>, "refusal", Undefined),
      HttpError(500, "overloaded"),
      NetworkFailure }

OpenAICall(id, name, arguments) ==
    [id |-> id, function |-> [name |-> name, arguments |-> arguments]]

OpenAIData(content, tool_calls, finish_reason, usage) ==
    Success([choices |-> <<[message |-> [content |-> content, tool_calls |-> tool_calls],
                            finish_reason |-> finish_reason]>>,
             usage |-> usage])

OpenAIWire ==
    { OpenAIData(Str("Hello."), Undefined, "stop", [total_tokens |-> 5]),
      OpenAIData(Str("Partial"), Undefined, "length", Undefined),
      OpenAIData(Null, Arr(<<OpenAICall("call_1", "echo", "{\"msg\":\"hi\"}")>>),
                 "tool_calls", [total_tokens |-> 2]),
      OpenAIData(Str("Checking"),
                 Arr(<<OpenAICall("call_1", "echo", "{\"msg\":\"hi\"}"),
                       OpenAICall("call_2", "boom", "{\"path\":\"a\"}")>>),
                 "tool_calls", Undefined),
      OpenAIData(Null, Arr(<<OpenAICall("call_3", "missing_tool", "{\"path\":\"a\"}")>>),
                 "stop", Undefined),
      OpenAIData(Null, Arr(<<OpenAICall("call_1", "echo", "null")>>),
                 "tool_calls", Undefined),
      OpenAIData(Null, Arr(<<OpenAICall("call_1", "echo", "{\"msg\":")>>),
                 "length", Undefined),
      OpenAIData(Str("Hello."), Arr(<<>>), "stop", Undefined),
      Success([choices |-> <<>>, usage |-> Undefined]),
      HttpError(429, "rate limited") }

GoogleData(parts, finishReason, usageMetadata, entropy) ==
    [kind |-> "json",
     data |-> [candidates |-> <<[content |-> [parts |-> parts],
                                 finishReason |-> finishReason]>>,
               usageMetadata |-> usageMetadata],
     entropy |-> entropy]

FunctionCall(name, args) == [functionCall |-> [name |-> name, args |-> args]]

GoogleWire ==
    { GoogleData(<<[text |-> "Hello."]>>, "STOP", [totalTokenCount |-> 5], <<"1_a">>),
      GoogleData(<<[text |-> "A"], [text |-> "B"]>>, "MAX_TOKENS", Undefined,
                 <<"1_a", "1_b">>),
      GoogleData(<<[text |-> "Checking"], FunctionCall("echo", Obj([msg |-> "hi"]))>>,
                 "STOP", [totalTokenCount |-> 2], <<"1_a", "1_b">>),
      GoogleData(<<FunctionCall("missing_tool", Obj([path |-> "a"]))>>,
                 "STOP", Undefined, <<"1_a">>),
      GoogleData(<<FunctionCall("echo", Obj([msg |-> "hi"])),
                   FunctionCall("boom", Obj([path |-> "a"]))>>,
                 "STOP", Undefined, <<"1_a", "1_a">>),
      GoogleData(<<FunctionCall("echo", Undefined)>>, "STOP", Undefined, <<"1_a">>),
      GoogleData(<<FunctionCall("missing_tool", Obj([path |-> "a"])),
                   FunctionCall("echo", Undefined)>>,
                 "STOP", Undefined, <<"1_a", "1_b">>),
      [kind |-> "json", data |-> [candidates |-> <<>>, usageMetadata |-> Undefined],
       entropy |-> <<>>],
      HttpError(500, "internal"),
      NetworkFailure }

\* the placeholder adapter calls no endpoint
NoFetch == [kind |-> "none"]

Vendors == {"anthropic", "openai", "google", "placeholder"}

WireOf(v) ==
    CASE v = "anthropic"   -> AnthropicWire
      [] v = "openai"      -> OpenAIWire
      [] v = "google"      -> GoogleWire
      [] v = "placeholder" -> {NoFetch}

\* success responses that lack a field the adapter reads
IncompleteWire(v) ==
    CASE v = "anthropic" ->
            { Success([stop_reason |-> "end_turn", usage |-> Undefined]) }
      [] v = "openai" ->
            { Success([usage |-> Undefined]),
              Success([choices |-> <<>>, usage |-> Undefined]),
              Success([choices |-> <<[finish_reason |-> "stop"]>>,
                       usage |-> Undefined]),
              OpenAIData(Null, Undefined, "stop", Undefined) }
      [] v = "google" ->
            { [kind |-> "json", data |-> [usageMetadata |-> Undefined],
               entropy |-> <<>>],
              [kind |-> "json",
               data |-> [candidates |-> <<>>, usageMetadata |-> Undefined],
               entropy |-> <<>>],
              [kind |-> "json",
               data |-> [candidates |-> <<[finishReason |-> "SAFETY"]>>,
                         usageMetadata |-> Undefined],
               entropy |-> <<>>],
              [kind |-> "json",
               data |-> [candidates |-> <<[content |-> [role |-> "model"],
                                           finishReason |-> "STOP"]>>,
                         usageMetadata |-> Undefined],
               entropy |-> <<>>] }
      [] v = "placeholder" -> {}

\* the tool sets a ToolExecutor may hold when the loop starts
Registries ==
    { <<>>,
      <<Tool("echo", "echo"), Tool("boom", "throwError")>>,
      <<Tool("echo", "echo"), Tool("boom", "throwValue")>> }

systemPrompt == "You are a test agent."

userPrompt == "Say hello."

-----------------------------------------------------------------------------
(* TaskWorker.agenticLoop *)

\* an LLMMessage; isArray is Array.isArray(content)
Message(role, isArray, content) ==
    [role |-> role, isArray |-> isArray, content |-> content]

\* the wire response the provider gives to the call of this turn
NextWire == IF turn < FreeTurns THEN script[turn + 1] ELSE steady

\* the stop test with max_tokens forgotten
IsFinal_EndTurnOnly(stopReason) == stopReason = "end_turn"

\* stopReason === "end_turn" || stopReason === "max_tokens"
IsFinal(stopReason) == stopReason = "end_turn" \/ stopReason = "max_tokens"

\* content.filter(text).map(b => b.text)
Texts(content) ==
    LET kept == SelectSeq(content, IsText)
    IN  [i \in 1..Len(kept) |-> kept[i].text]

\* the string returned when the LLM is done
FinalText(content) == Join(Texts(content), "\n")

\* only the first tool_use block is kept
FilterToolUse_FirstOnly(content) ==
    LET kept == SelectSeq(content, IsToolUse)
    IN  IF kept = <<>> THEN <<>> ELSE <<kept[1]>>

\* response.content.filter(b => b.type === "tool_use")
FilterToolUse(content) == SelectSeq(content, IsToolUse)

\* the ToolResultContent pushed for a ToolResult
ToolResultContent(result) ==
    [type |-> "tool_result", tool_use_id |-> result.tool_use_id,
     content |-> result.content, is_error |-> result.is_error]

\* the first assistant turn instead of the last (shift for pop)
LastAssistant_First(msgs) ==
    LET a == SelectSeq(msgs, LAMBDA m : m.role = "assistant")
    IN  IF a = <<>> THEN Undefined ELSE a[1]

\* messages.filter(m => m.role === "assistant").pop()
LastAssistant(msgs) ==
    LET a == SelectSeq(msgs, LAMBDA m : m.role = "assistant")
    IN  IF a = <<>> THEN Undefined ELSE a[Len(a)]

\* the best-effort answer without the appended warning
MaxTurnsAnswer_NoMarker(msgs) ==
    LET lastAssistant == LastAssistant(msgs)
    IN  IF lastAssistant # Undefined /\ lastAssistant.isArray
           /\ Texts(lastAssistant.content) # <<>>
        THEN Join(Texts(lastAssistant.content), "\n")
        ELSE FALLBACK

\* the string returned once MAX_AGENT_TURNS turns are used up
MaxTurnsAnswer(msgs) ==
    LET lastAssistant == LastAssistant(msgs)
    IN  IF lastAssistant # Undefined /\ lastAssistant.isArray
           /\ Texts(lastAssistant.content) # <<>>
        THEN Join(Texts(lastAssistant.content), "\n") \o "\n\n" \o WARNING_MARKER
        ELSE FALLBACK

\* tool results sent back in a turn of a role of their own
ToolResultsMessage_ToolRole(results) == Message("tool", TRUE, results)

\* line 511: the turn that carries the tool results of one iteration
ToolResultsMessage(results) == Message("user", TRUE, results)

NoFailure == [origin |-> "none"]

NoProbe == [op |-> "none"]

NoFrame == [pc |-> "none"]

\* a ToolExecutor attached with setToolExecutor
Attached == [t |-> "object", v |-> "ToolExecutor"]

\* agenticLoop or an adapter driven directly: no agent, no task
NoHost ==
    /\ running = FALSE
    /\ toolExecutor = Attached
    /\ hostPc = "none"
    /\ task = Null
    /\ solution = Undefined
    /\ didWork = Undefined
    /\ waitMs = 0
    /\ polls = 0
    /\ solves = 0
    /\ completeCalls = 0
    /\ submissions = <<>>
    /\ runLog = <<>>
    /\ stopped = FALSE
    /\ heartbeatHandle = Null
    /\ timers = {}
    /\ beats = 0
    /\ beating = 0
    /\ beatLog = <<>>
    /\ disk = InitialDisk

Init ==
    /\ config \in Configs
    /\ vendor = createLLMAdapter(config.provider, config.apiKey).value
    /\ script \in [1..FreeTurns -> WireOf(vendor)]
    /\ steady \in WireOf(vendor)
    /\ tools \in Registries
    /\ pc = "call"
    /\ turn = 0
    /\ messages = <<Message("user", FALSE, userPrompt)>>
    /\ response = Undefined
    /\ toolUseBlocks = <<>>
    /\ toolResults = <<>>
    /\ totalTokens = 0
    /\ returned = ""
    /\ failure = NoFailure
    /\ modelCalls = 0
    /\ dispatched = <<>>
    /\ executeCalls = 0
    /\ inFlight = {}
    /\ fetches = 0
    /\ request = NoRequest
    /\ NoHost
    /\ definitions = getDefinitions(tools)
    /\ peer = NoFrame
    /\ solo = NoFrame
    /\ registered = tools
    /\ probe = NoProbe

\* the network requests one completeWithTools call of the adapter issues
FetchCount(v) == IF v = "placeholder" THEN 0 ELSE 1

ModelCall == [op |-> "completeWithTools"]

ToolExecution(i) == [op |-> "execute", index |-> i]

\* line 458: completeWithTools is called and awaited
StartModelCall ==
    /\ pc = "call"
    /\ turn < MAX_AGENT_TURNS
    /\ modelCalls' = modelCalls + 1
    /\ fetches' = fetches + FetchCount(vendor)
    /\ request' = Request(vendor, systemPrompt, messages, definitions)
    /\ inFlight' = inFlight \cup {ModelCall}
    /\ dispatched' = <<>>
    /\ pc' = "awaitModel"
    /\ UNCHANGED <<environment, tools, turn, messages, response, toolUseBlocks,
                   toolResults, totalTokens, returned, failure, executeCalls>>

\* the total is replaced by the last count
AddTokens_Last(total, tokensUsed) == Nullish(tokensUsed, Num(0)).v

\* line 460: totalTokens += response.tokensUsed ?? 0
AddTokens(total, tokensUsed) == total + Nullish(tokensUsed, Num(0)).v

\* line 458-462: the call settles; an adapter error leaves the loop
CallModel ==
    /\ pc = "awaitModel"
    /\ inFlight' = inFlight \ {ModelCall}
    /\ LET out == completeWithTools(vendor, NextWire)
       IN  IF out.threw
           THEN /\ pc' = "failed"
                /\ failure' = [origin |-> "adapter", error |-> out]
                /\ UNCHANGED <<response, totalTokens, messages>>
           ELSE /\ pc' = "respond"
                /\ response' = out.value
                /\ totalTokens' = AddTokens(totalTokens, out.value.tokensUsed)
                /\ messages' = Append(messages,
                                      Message("assistant", TRUE, out.value.content))
                /\ UNCHANGED failure
    /\ UNCHANGED <<environment, tools, turn, toolUseBlocks, toolResults,
                   returned, modelCalls, dispatched, executeCalls, fetches,
                   request>>

\* line 471-488: return the final text, or collect the tool_use blocks
HandleResponse ==
    /\ pc = "respond"
    /\ IF IsFinal(response.stopReason)
       THEN /\ returned' = FinalText(response.content)
            /\ pc' = "done"
            /\ UNCHANGED <<toolUseBlocks, toolResults>>
       ELSE /\ toolUseBlocks' = FilterToolUse(response.content)
            /\ toolResults' = <<>>
            /\ pc' = "tools"
            /\ UNCHANGED returned
    /\ UNCHANGED <<environment, tools, turn, messages, response,
                   totalTokens, failure, modelCalls, dispatched, executeCalls,
                   inFlight, fetches,
                   request>>

\* a dispatch loop that starts every execute at once (Promise.all)
CanDispatch_All(i, results, flying) == TRUE

\* line 490-497: iteration i of the for-of starts when the await of
\* iteration i - 1 has resumed
CanDispatch(i, results, flying) == Len(results) = i - 1 /\ flying = {}

\* line 490-497: one iteration of the dispatch loop logs the call and
\* starts toolExecutor.execute
DispatchTool ==
    /\ pc = "tools"
    /\ Len(dispatched) < Len(toolUseBlocks)
    /\ CanDispatch(Len(dispatched) + 1, toolResults, inFlight)
    /\ LET toolCall == toolUseBlocks[Len(dispatched) + 1]
           call == [id |-> toolCall.id, name |-> toolCall.name, input |-> toolCall.input]
       IN  IF JSONStringify(toolCall.input) = Undefined
           THEN \* JSON.stringify(undefined).slice(...) is a TypeError
                /\ pc' = "failed"
                /\ failure' = [origin |-> "loop",
                               error |-> Throw("TypeError",
                                               "Cannot read properties of undefined")]
                /\ UNCHANGED <<dispatched, executeCalls, inFlight>>
           ELSE /\ dispatched' = Append(dispatched, call)
                /\ executeCalls' = executeCalls + 1
                /\ inFlight' = inFlight \cup {ToolExecution(Len(dispatched) + 1)}
                /\ UNCHANGED <<pc, failure>>
    /\ UNCHANGED <<environment, tools, turn, messages, response, toolUseBlocks,
                   toolResults, totalTokens, returned, modelCalls, fetches,
                   request>>

\* line 493-508: the awaited execute settles and its result is collected
ExecuteTool ==
    /\ pc = "tools"
    /\ ToolExecution(Len(toolResults) + 1) \in inFlight
    /\ inFlight' = inFlight \ {ToolExecution(Len(toolResults) + 1)}
    /\ LET result == ToolExecutorExecute(tools, dispatched[Len(toolResults) + 1])
       IN  IF result.threw
           THEN \* a rejection of execute would leave the loop
                /\ pc' = "failed"
                /\ failure' = [origin |-> "tool", error |-> result]
                /\ UNCHANGED toolResults
           ELSE /\ toolResults' = Append(toolResults,
                                         ToolResultContent(result.value))
                /\ UNCHANGED <<pc, failure>>
    /\ UNCHANGED <<environment, tools, turn, messages, response, toolUseBlocks,
                   totalTokens, returned, modelCalls, dispatched, executeCalls,
                   fetches,
                   request>>

\* line 511: the tool results become one user turn; next iteration
AppendResults ==
    /\ pc = "tools"
    /\ Len(toolResults) = Len(toolUseBlocks)
    /\ messages' = Append(messages, ToolResultsMessage(toolResults))
    /\ turn' = turn + 1
    /\ pc' = "call"
    /\ UNCHANGED <<environment, tools, response, toolUseBlocks,
                   toolResults, totalTokens, returned, failure, modelCalls,
                   dispatched, executeCalls, inFlight, fetches,
                   request>>

\* line 514-526: the loop ran out of turns
MaxTurnsReached ==
    /\ pc = "call"
    /\ turn = MAX_AGENT_TURNS
    /\ returned' = MaxTurnsAnswer(messages)
    /\ pc' = "exhausted"
    /\ UNCHANGED <<environment, tools, turn, messages, response,
                   toolUseBlocks, toolResults, totalTokens, failure, modelCalls,
                   dispatched, executeCalls, inFlight, fetches,
                   request>>

Next ==
    \/ StartModelCall
    \/ CallModel
    \/ HandleResponse
    \/ DispatchTool
    \/ ExecuteTool
    \/ AppendResults
    \/ MaxTurnsReached

Spec == Init /\ [][Next]_vars

\* the event loop runs every continuation of the loop that is ready
FairSpec == Spec /\ WF_vars(Next)

-----------------------------------------------------------------------------
(* The ToolExecutor on its own: register and execute called directly *)

\* number of register calls made on one ToolExecutor
MaxRegistrations == 2

ToolNames == {"echo", "boom"}

Behaviours == {"echo", "throwError", "throwValue"}

\* the calls execute is probed with
ProbeCalls ==
    { [id |-> id, name |-> name, input |-> input] :
        id \in {"call_1", "call_2"},
        name \in ToolNames \cup {"missing_tool"},
        input \in {Obj([msg |-> "hi"]), Undefined} }

\* a fresh ToolExecutor; the loop is not running
ToolInit ==
    /\ tools = <<>>
    /\ registered = <<>>
    /\ probe = NoProbe
    /\ config = [provider |-> "anthropic", apiKey |-> ""]
    /\ vendor = createLLMAdapter(config.provider, config.apiKey).value
    /\ script = [i \in 1..FreeTurns |-> NoFetch]
    /\ steady = NoFetch
    /\ pc = "idle"
    /\ turn = 0
    /\ messages = <<>>
    /\ response = Undefined
    /\ toolUseBlocks = <<>>
    /\ toolResults = <<>>
    /\ totalTokens = 0
    /\ returned = ""
    /\ failure = NoFailure
    /\ modelCalls = 0
    /\ dispatched = <<>>
    /\ executeCalls = 0
    /\ inFlight = {}
    /\ fetches = 0
    /\ request = NoRequest
    /\ NoHost
    /\ definitions = <<>>
    /\ peer = NoFrame
    /\ solo = NoFrame

loopVars == <<config, vendor, script, steady, pc, turn, messages, response,
              toolUseBlocks, toolResults, totalTokens, returned, failure,
              modelCalls, dispatched, inFlight, fetches, request, definitions,
              peer, solo, hostVars, disk>>

\* toolExecutor.register(tool)
Register ==
    /\ pc = "idle"
    /\ Len(registered) < MaxRegistrations
    /\ \E name \in ToolNames, behaviour \in Behaviours :
            /\ tools' = register(tools, Tool(name, behaviour))
            /\ registered' = Append(registered, Tool(name, behaviour))
    /\ UNCHANGED <<loopVars, executeCalls, probe>>

\* await toolExecutor.execute(call), called directly
Execute ==
    /\ pc = "idle"
    /\ \E call \in ProbeCalls :
            probe' = [op |-> "execute", call |-> call, at |-> Len(registered),
                      outcome |-> ToolExecutorExecute(tools, call)]
    /\ UNCHANGED <<loopVars, executeCalls, tools, registered>>

ToolNext ==
    \/ Register
    \/ Execute

ToolSpec == ToolInit /\ [][ToolNext]_vars

-----------------------------------------------------------------------------
(* Two agenticLoop invocations on one TaskWorker *)

\* line 451-457: what one invocation keeps in parameters and locals
Frame ==
    [pc |-> pc, turn |-> turn, messages |-> messages, response |-> response,
     toolUseBlocks |-> toolUseBlocks, toolResults |-> toolResults,
     totalTokens |-> totalTokens, returned |-> returned, failure |-> failure,
     modelCalls |-> modelCalls, dispatched |-> dispatched,
     executeCalls |-> executeCalls, inFlight |-> inFlight]

\* the loop counter kept from the invocation before
FreshFrame_StaleTurn ==
    [pc |-> "call", turn |-> turn,
     messages |-> <<Message("user", FALSE, userPrompt)>>,
     response |-> Undefined, toolUseBlocks |-> <<>>, toolResults |-> <<>>,
     totalTokens |-> 0, returned |-> "", failure |-> NoFailure,
     modelCalls |-> 0, dispatched |-> <<>>, executeCalls |-> 0, inFlight |-> {}]

\* line 452-457: the locals of an invocation that has just been called
FreshFrame ==
    [pc |-> "call", turn |-> 0,
     messages |-> <<Message("user", FALSE, userPrompt)>>,
     response |-> Undefined, toolUseBlocks |-> <<>>, toolResults |-> <<>>,
     totalTokens |-> 0, returned |-> "", failure |-> NoFailure,
     modelCalls |-> 0, dispatched |-> <<>>, executeCalls |-> 0, inFlight |-> {}]

\* an invocation that finds the conversation in a field of the TaskWorker
Resume_SharedConversation(frame) == [frame EXCEPT !.messages = messages]

\* an invocation resumes after an await with the locals it was suspended with
Resume(frame) == frame

\* the provider answer ends the conversation: an error or a final stop reason
EndsConversation(v, wire) ==
    LET out == completeWithTools(v, wire)
    IN  out.threw \/ IsFinal(out.value.stopReason)

\* the provider that asks for the echo tool in every turn
Repeating ==
    AnthropicData(<<TextBlock("Checking"),
                    ToolUseBlock("tu_1", "echo", Obj([msg |-> "hi"]))>>,
                  "tool_use", Usage(1, 1))

\* the loop at an await, or over: the event loop may run another invocation
AtAwait ==
    \/ pc = "awaitModel"
    \/ pc = "tools" /\ inFlight # {}
    \/ pc \in {"done", "exhausted", "failed"}

\* providers that answer the first turns freely and then end the conversation,
\* and one that never does
ConcurrentInit ==
    /\ Init
    /\ tools = <<Tool("echo", "echo"), Tool("boom", "throwError")>>
    /\ \/ EndsConversation(vendor, steady)
       \/ vendor = "anthropic" /\ steady = Repeating
            /\ \A i \in 1..FreeTurns : script[i] = Repeating

\* the invocation that ran alone is over; two invocations are called
StartConcurrent ==
    /\ solo = NoFrame
    /\ pc \in {"done", "exhausted", "failed"}
    /\ solo' = Frame
    /\ peer' = FreshFrame
    /\ pc' = FreshFrame.pc
    /\ turn' = FreshFrame.turn
    /\ messages' = FreshFrame.messages
    /\ response' = FreshFrame.response
    /\ toolUseBlocks' = FreshFrame.toolUseBlocks
    /\ toolResults' = FreshFrame.toolResults
    /\ totalTokens' = FreshFrame.totalTokens
    /\ returned' = FreshFrame.returned
    /\ failure' = FreshFrame.failure
    /\ modelCalls' = FreshFrame.modelCalls
    /\ dispatched' = FreshFrame.dispatched
    /\ executeCalls' = FreshFrame.executeCalls
    /\ inFlight' = FreshFrame.inFlight
    /\ UNCHANGED <<config, vendor, script, steady, tools, fetches, request,
                   definitions, registered,
                   probe, hostVars, disk>>

\* the running invocation is suspended at an await and the other one runs
Switch ==
    /\ solo # NoFrame
    /\ AtAwait
    /\ peer' = Frame
    /\ LET frame == Resume(peer)
       IN  /\ pc' = frame.pc
           /\ turn' = frame.turn
           /\ messages' = frame.messages
           /\ response' = frame.response
           /\ toolUseBlocks' = frame.toolUseBlocks
           /\ toolResults' = frame.toolResults
           /\ totalTokens' = frame.totalTokens
           /\ returned' = frame.returned
           /\ failure' = frame.failure
           /\ modelCalls' = frame.modelCalls
           /\ dispatched' = frame.dispatched
           /\ executeCalls' = frame.executeCalls
           /\ inFlight' = frame.inFlight
    /\ UNCHANGED <<config, vendor, script, steady, tools, fetches, request,
                   definitions, solo,
                   registered, probe, hostVars, disk>>

ConcurrentNext ==
    \/ Next
    \/ StartConcurrent
    \/ Switch

ConcurrentSpec == ConcurrentInit /\ [][ConcurrentNext]_vars

-----------------------------------------------------------------------------
(* agenticLoop called again with the same prompts, registry and provider *)

\* the clock and the random source of the second run: Google ids differ
Reseed(wire) ==
    IF "entropy" \in DOMAIN wire
    THEN [wire EXCEPT !.entropy = [i \in DOMAIN @ |-> "2_" \o @[i]]]
    ELSE wire

\* the first invocation is over; agenticLoop is called a second time
Rerun ==
    /\ solo = NoFrame
    /\ pc \in {"done", "exhausted", "failed"}
    /\ solo' = Frame
    /\ pc' = FreshFrame.pc
    /\ turn' = FreshFrame.turn
    /\ messages' = FreshFrame.messages
    /\ response' = FreshFrame.response
    /\ toolUseBlocks' = FreshFrame.toolUseBlocks
    /\ toolResults' = FreshFrame.toolResults
    /\ totalTokens' = FreshFrame.totalTokens
    /\ returned' = FreshFrame.returned
    /\ failure' = FreshFrame.failure
    /\ modelCalls' = FreshFrame.modelCalls
    /\ dispatched' = FreshFrame.dispatched
    /\ executeCalls' = FreshFrame.executeCalls
    /\ inFlight' = FreshFrame.inFlight
    /\ script' = [i \in DOMAIN script |-> Reseed(script[i])]
    /\ steady' = Reseed(steady)
    /\ UNCHANGED <<config, vendor, tools, fetches, request, definitions, peer,
                   registered, probe, hostVars, disk>>

RerunNext ==
    \/ Next
    \/ Rerun

RerunSpec == Init /\ [][RerunNext]_vars

-----------------------------------------------------------------------------
(* The host: PrometheusAgent.taskLoop, TaskWorker.runOnce and solveTask *)

\* number of runOnce calls of one taskLoop
MaxPolls == 2

TASK_LOOP_INTERVAL_MS == 60000

ERROR_BACKOFF_MS == 120000

AvailableTask(id) == [id |-> id]

\* ApiResponse<T>
ApiResponse(success, data, error) ==
    [success |-> success, data |-> data, error |-> error]

\* what client.getAvailableTasks may settle with
GetAvailableTasksOutcomes ==
    { Throw("TypeError", "fetch failed"),
      Return(ApiResponse(FALSE, Undefined, Str("HTTP 500"))),
      Return(ApiResponse(TRUE, Undefined, Undefined)),
      Return(ApiResponse(TRUE, Arr(<<>>), Undefined)),
      Return(ApiResponse(TRUE, Arr(<<AvailableTask("t1")>>), Undefined)),
      Return(ApiResponse(TRUE, Arr(<<AvailableTask("t2"), AvailableTask("t1")>>),
                         Undefined)) }

\* what client.claimTask may settle with
ClaimTaskOutcomes ==
    { Throw("TypeError", "fetch failed"),
      Return(ApiResponse(FALSE, Undefined, Str("already claimed"))),
      Return(ApiResponse(TRUE, Undefined, Undefined)) }

\* what client.submitResult may settle with
SubmitResultOutcomes ==
    { Throw("TypeError", "fetch failed"),
      Return(ApiResponse(FALSE, Undefined, Str("HTTP 500"))),
      Return(ApiResponse(TRUE, Undefined, Undefined)) }

\* line 385: !listRes.success || !listRes.data || listRes.data.length === 0
NoTasks(listRes) ==
    \/ ~listRes.success
    \/ listRes.data = Undefined
    \/ listRes.data.v = <<>>

\* the last task of the listing
FirstTask_Last(data) == data[Len(data)]

\* line 393: const task = listRes.data[0]
FirstTask(data) == data[1]

\* one awaited step of runOnce: the operation, its argument, how it settled
RunStep(op, arg, outcome) == [op |-> op, arg |-> arg, outcome |-> outcome]

\* the loop is entered whatever the worker has attached
UsesLoop_Always(executor) == TRUE

\* line 424, 443: if (!this.toolExecutor) ... complete; else agenticLoop
UsesLoop(executor) == executor # Null

\* an error of the try block leaves runOnce
TryCatch_Rethrow(out) == out

\* line 549-558: runOnce's try/catch: any error of the block becomes false
TryCatch(out) == IF out.threw THEN Return(Bool(FALSE)) ELSE out

\* the same pause whatever happened
WaitAfter_Flat(out) == TASK_LOOP_INTERVAL_MS

\* part_005 line 117-131: the pause after a runOnce that settled with out
WaitAfter(out) ==
    IF out.threw THEN ERROR_BACKOFF_MS
    ELSE IF out.value = Bool(TRUE) THEN TASK_LOOP_INTERVAL_MS
    ELSE TASK_LOOP_INTERVAL_MS * 2

\* what the host's steps never assign
hostFrame == <<config, vendor, script, steady, tools, request, peer, solo,
               registered, probe, toolExecutor, disk>>

\* the locals of agenticLoop
loopLocals == <<pc, turn, messages, response, toolUseBlocks, toolResults,
                totalTokens, returned, failure, modelCalls, dispatched,
                executeCalls, inFlight, definitions>>

\* an agent and its worker just constructed; the provider gives one answer in
\* the first turns and then ends the conversation, or never does
HostInit ==
    /\ config \in Configs
    /\ vendor = createLLMAdapter(config.provider, config.apiKey).value
    /\ \E first \in WireOf(vendor) : script = [i \in 1..FreeTurns |-> first]
    /\ steady \in WireOf(vendor)
    /\ tools = <<Tool("echo", "echo"), Tool("boom", "throwError")>>
    /\ toolExecutor \in {Null, Attached}
    /\ pc = "idle"
    /\ turn = 0
    /\ messages = <<>>
    /\ response = Undefined
    /\ toolUseBlocks = <<>>
    /\ toolResults = <<>>
    /\ totalTokens = 0
    /\ returned = ""
    /\ failure = NoFailure
    /\ modelCalls = 0
    /\ dispatched = <<>>
    /\ executeCalls = 0
    /\ inFlight = {}
    /\ fetches = 0
    /\ request = NoRequest
    /\ definitions = <<>>
    /\ peer = NoFrame
    /\ solo = NoFrame
    /\ registered = tools
    /\ probe = NoProbe
    /\ running = FALSE
    /\ hostPc = "created"
    /\ task = Null
    /\ solution = Undefined
    /\ didWork = Undefined
    /\ waitMs = 0
    /\ polls = 0
    /\ solves = 0
    /\ completeCalls = 0
    /\ submissions = <<>>
    /\ runLog = <<>>
    /\ stopped = FALSE
    /\ heartbeatHandle = Null
    /\ timers = {}
    /\ beats = 0
    /\ beating = 0
    /\ beatLog = <<>>
    /\ disk = InitialDisk
    /\ \/ EndsConversation(vendor, steady)
       \/ vendor = "anthropic" /\ steady = Repeating
            /\ \A i \in 1..FreeTurns : script[i] = Repeating

\* the handle setInterval returns
IntervalHandle == [t |-> "object", v |-> "Timeout"]

\* a line written to the console, or a rejection reported by the runtime
Line(level, text) == [level |-> level, text |-> text]

\* HeartbeatResponse as the log line of beat reads it
HeartbeatData == [agent |-> [name |-> "prometheus"], tasks |-> [open_count |-> 3]]

\* what client.heartbeat may settle with
HeartbeatOutcomes ==
    { Throw("TypeError", "fetch failed"),
      Return(ApiResponse(FALSE, Undefined, Str("HTTP 500"))),
      Return(ApiResponse(FALSE, Undefined, Undefined)),
      Return(ApiResponse(TRUE, Undefined, Undefined)),
      Return(ApiResponse(TRUE, HeartbeatData, Undefined)),
      Return(ApiResponse(TRUE, [status |-> "ok"], Undefined)) }

\* part_007 line 13-25: the try block of beat, given how the request settled
BeatTry(res) ==
    IF res.threw THEN res
    ELSE IF res.value.success /\ res.value.data # Undefined
    THEN IF "agent" \in DOMAIN res.value.data
         THEN Return(Line("log", "[Heartbeat] Agent: " \o res.value.data.agent.name))
         ELSE Throw("TypeError", "Cannot read properties of undefined")
    ELSE Return(Line("warn", "[Heartbeat] Warning: "
                               \o Nullish(res.value.error, Str("no data")).v))

\* a beat without its catch block
Beat_NoCatch(res) ==
    IF BeatTry(res).threw
    THEN [settled |-> BeatTry(res), printed |-> <<>>]
    ELSE [settled |-> Return(Undefined), printed |-> <<BeatTry(res).value>>]

\* part_007 line 12-32: what the promise of beat settles with and what the
\* beat prints
Beat(res) ==
    IF BeatTry(res).threw
    THEN [settled |-> Return(Undefined),
          printed |-> <<Line("warn", "[Heartbeat] Failed: " \o BeatTry(res).message)>>]
    ELSE [settled |-> Return(Undefined), printed |-> <<BeatTry(res).value>>]

\* heartbeats started on one agent
MaxBeats == 3

\* part_007 line 35-41: startHeartbeat calls beat at once and schedules it
StartHeartbeat ==
    /\ beats' = beats + 1
    /\ beating' = beating + 1
    /\ timers' = timers \cup {IntervalHandle}
    /\ heartbeatHandle' = IntervalHandle

\* part_007 line 37: the interval fires and calls beat
Tick ==
    /\ timers # {}
    /\ beats < MaxBeats
    /\ beats' = beats + 1
    /\ beating' = beating + 1
    /\ UNCHANGED <<hostFrame, loopLocals, fetches, running, hostPc, task,
                   solution, didWork, waitMs, polls, solves, completeCalls,
                   submissions, runLog, stopped, heartbeatHandle, timers,
                   beatLog>>

\* part_007 line 12-32: client.heartbeat settles and the beat ends; the
\* promise of beat is held by nobody, so its rejection would go unhandled
SettleBeat ==
    /\ beating > 0
    /\ beating' = beating - 1
    /\ \E res \in HeartbeatOutcomes :
          beatLog' = beatLog \o Beat(res).printed
                       \o (IF Beat(res).settled.threw
                           THEN <<Line("unhandledRejection",
                                       Beat(res).settled.message)>>
                           ELSE <<>>)
    /\ UNCHANGED <<hostFrame, loopLocals, fetches, running, hostPc, task,
                   solution, didWork, waitMs, polls, solves, completeCalls,
                   submissions, runLog, stopped, heartbeatHandle, timers,
                   beats>>

\* part_005 line 43-55: start() loads the skills and awaits verifyConnection
Start ==
    /\ hostPc = "created"
    /\ hostPc' = "verify"
    /\ UNCHANGED <<hostFrame, beatVars, loopLocals, fetches, running, task, solution,
                   didWork, waitMs, polls, solves, completeCalls, submissions,
                   runLog>>

\* part_005 line 55-65, 84-103: verifyConnection settles, whatever the
\* profile request did; start() starts the heartbeat, sets running and
\* enters taskLoop
VerifyConnectionSettles ==
    /\ hostPc = "verify"
    /\ StartHeartbeat
    /\ running' = TRUE
    /\ hostPc' = "loopHead"
    /\ UNCHANGED <<hostFrame, loopLocals, fetches, task, solution, didWork,
                   waitMs, polls, solves, completeCalls, submissions, runLog,
                   stopped, beatLog>>

\* part_007 line 48-54: stopHeartbeat: clearInterval(handle)
StopHeartbeat(table, handle) == table \ {handle}

\* part_005 line 68-78, index.ts line 187-190: stop() clears running and stops
\* the heartbeat it knows of; the shutdown handler calls it once
Stop ==
    /\ hostPc \notin {"none", "direct", "directDone"}
    /\ ~stopped
    /\ stopped' = TRUE
    /\ running' = FALSE
    /\ IF heartbeatHandle # Null
       THEN /\ timers' = StopHeartbeat(timers, heartbeatHandle)
            /\ heartbeatHandle' = Null
       ELSE UNCHANGED <<timers, heartbeatHandle>>
    /\ UNCHANGED <<hostFrame, loopLocals, fetches, hostPc, task, solution,
                   didWork, waitMs, polls, solves, completeCalls, submissions,
                   runLog, beats, beating, beatLog>>

\* the run command: solveDirectTask is called with a description, no task
RunDirect ==
    /\ hostPc = "created"
    /\ hostPc' = "direct"
    /\ UNCHANGED <<hostFrame, beatVars, loopLocals, fetches, running, task, solution,
                   didWork, waitMs, polls, solves, completeCalls, submissions,
                   runLog>>

\* part_005 line 116-118: while (this.running) runOnce is called; line 383
LoopHead ==
    /\ hostPc = "loopHead"
    /\ IF running
       THEN /\ polls < MaxPolls
            /\ polls' = polls + 1
            /\ didWork' = Undefined
            /\ runLog' = <<>>
            /\ hostPc' = "list"
       ELSE /\ hostPc' = "exited"
            /\ UNCHANGED <<polls, didWork, runLog>>
    /\ UNCHANGED <<hostFrame, beatVars, loopLocals, fetches, running, task, solution,
                   waitMs, solves, completeCalls, submissions>>

\* line 383-392: the list settles; no task ends runOnce with false
GetAvailableTasks ==
    /\ hostPc = "list"
    /\ \E listRes \in GetAvailableTasksOutcomes :
        /\ runLog' = Append(runLog, RunStep("getAvailableTasks", Num(5), listRes))
        /\ IF listRes.threw
            THEN /\ didWork' = listRes
                 /\ hostPc' = "returned"
                 /\ task' = Null
            ELSE IF NoTasks(listRes.value)
            THEN /\ didWork' = Return(Bool(FALSE))
                 /\ hostPc' = "returned"
                 /\ task' = Null
            ELSE /\ task' = FirstTask(listRes.value.data.v)
                 /\ hostPc' = "claim"
                 /\ UNCHANGED didWork
    /\ UNCHANGED <<hostFrame, beatVars, loopLocals, fetches, running, solution, waitMs,
                   polls, solves, completeCalls, submissions>>

\* line 393-403, 546: the claim settles; a refused claim ends runOnce with false
ClaimTask ==
    /\ hostPc = "claim"
    /\ \E claimRes \in ClaimTaskOutcomes :
        /\ runLog' = Append(runLog, RunStep("claimTask", Str(task.id), claimRes))
        /\ IF claimRes.threw
            THEN /\ didWork' = claimRes
                 /\ hostPc' = "returned"
                 /\ task' = Null
            ELSE IF ~claimRes.value.success
            THEN /\ didWork' = Return(Bool(FALSE))
                 /\ hostPc' = "returned"
                 /\ task' = Null
            ELSE /\ hostPc' = "solve"
                 /\ UNCHANGED <<didWork, task>>
    /\ UNCHANGED <<hostFrame, beatVars, loopLocals, fetches, running, solution, waitMs,
                   polls, solves, completeCalls, submissions>>

\* line 410-435, 440-449: solveTask and solveDirectTask call complete when no
\* executor is attached, agenticLoop otherwise
StartSolve ==
    /\ hostPc \in {"solve", "direct"}
    /\ solves' = solves + 1
    /\ IF UsesLoop(toolExecutor)
       THEN /\ hostPc' = "loop"
            /\ definitions' = getDefinitions(tools)
            /\ pc' = FreshFrame.pc
            /\ turn' = FreshFrame.turn
            /\ messages' = FreshFrame.messages
            /\ response' = FreshFrame.response
            /\ toolUseBlocks' = FreshFrame.toolUseBlocks
            /\ toolResults' = FreshFrame.toolResults
            /\ totalTokens' = FreshFrame.totalTokens
            /\ returned' = FreshFrame.returned
            /\ failure' = FreshFrame.failure
            /\ modelCalls' = FreshFrame.modelCalls
            /\ dispatched' = FreshFrame.dispatched
            /\ executeCalls' = FreshFrame.executeCalls
            /\ inFlight' = FreshFrame.inFlight
            /\ UNCHANGED <<completeCalls, fetches>>
       ELSE /\ hostPc' = "complete"
            /\ completeCalls' = completeCalls + 1
            /\ fetches' = fetches + FetchCount(vendor)
            /\ UNCHANGED loopLocals
    /\ UNCHANGED <<hostFrame, beatVars, running, task, solution, didWork, waitMs, polls,
                   submissions,
                   runLog>>

\* how a solve that settled with out continues: runOnce goes on to submit or
\* catches the error; solveDirectTask hands the outcome to its caller
SolveSettles(out) ==
    IF task = Null
    THEN /\ hostPc' = "directDone"
         /\ solution' = out
         /\ UNCHANGED <<didWork, runLog>>
    ELSE /\ runLog' = Append(runLog, RunStep("solveTask", Str(task.id), out))
         /\ IF out.threw
            THEN /\ hostPc' = "returned"
                 /\ didWork' = TryCatch(out)
                 /\ UNCHANGED solution
            ELSE /\ hostPc' = "submit"
                 /\ solution' = out
                 /\ UNCHANGED didWork

\* line 425-431, 444-445: complete settles and its content is returned
SettleComplete ==
    /\ hostPc = "complete"
    /\ LET out == complete(vendor, NextWire)
       IN  SolveSettles(IF out.threw THEN out ELSE Return(out.value.content))
    /\ UNCHANGED <<hostFrame, beatVars, loopLocals, fetches, running, task, waitMs,
                   polls, solves, completeCalls, submissions>>

\* line 434, 448: agenticLoop is over: its string is returned, its error thrown
LoopReturns ==
    /\ hostPc = "loop"
    /\ pc \in {"done", "exhausted", "failed"}
    /\ SolveSettles(IF pc = "failed" THEN failure.error ELSE Return(returned))
    /\ UNCHANGED <<hostFrame, beatVars, loopLocals, fetches, running, task, waitMs,
                   polls, solves, completeCalls, submissions>>

\* line 529-543, 551: the solution is submitted; runOnce returns res.success
SubmitResult ==
    /\ hostPc = "submit"
    /\ submissions' = Append(submissions,
                             [taskId |-> task.id, solution |-> solution.value])
    /\ \E res \in SubmitResultOutcomes :
        /\ runLog' = Append(runLog, RunStep("submitResult", Str(task.id), res))
        /\ didWork' = TryCatch(IF res.threw THEN res
                               ELSE Return(Bool(res.value.success)))
    /\ hostPc' = "returned"
    /\ UNCHANGED <<hostFrame, beatVars, loopLocals, fetches, running, task, solution,
                   waitMs, polls, solves, completeCalls>>

\* part_005 line 118-131: runOnce has settled; taskLoop picks the pause
AfterRunOnce ==
    /\ hostPc = "returned"
    /\ waitMs' = WaitAfter(didWork)
    /\ hostPc' = "sleep"
    /\ UNCHANGED <<hostFrame, beatVars, loopLocals, fetches, running, task, solution,
                   didWork, polls, solves, completeCalls, submissions,
                   runLog>>

\* part_005 line 136-138: the timer fires and the loop tests running again
Wake ==
    /\ hostPc = "sleep"
    /\ hostPc' = "loopHead"
    /\ UNCHANGED <<hostFrame, beatVars, loopLocals, fetches, running, task, solution,
                   didWork, waitMs, polls, solves, completeCalls, submissions,
                   runLog>>

HostNext ==
    \/ Next
    \/ Start
    \/ VerifyConnectionSettles
    \/ Stop
    \/ RunDirect
    \/ LoopHead
    \/ GetAvailableTasks
    \/ ClaimTask
    \/ StartSolve
    \/ SettleComplete
    \/ LoopReturns
    \/ SubmitResult
    \/ AfterRunOnce
    \/ Wake

HostSpec == HostInit /\ [][HostNext]_vars

-----------------------------------------------------------------------------
(* SpaceMarsClient: the envelope a request returns for a response *)

\* the client methods the agent calls
ClientOps == {"getAvailableTasks", "claimTask", "submitResult", "heartbeat"}

\* the bodies the server or a proxy in front of it may send
Bodies ==
    { "{\"success\":true,\"data\":[]}",
      "{\"success\":false,\"error\":\"not found\"}",
      "{\"success\":true,\"error\":\"partial\"}",
      "{\"error\":\"denied\"}",
      "{\"message\":\"Internal\"}",
      "null",
      "\"hi\"",
      "<html>Bad Gateway</html>",
      "" }

\* the statuses of the responses
Statuses == {200, 400, 429, 500}

\* a fetch Response: Response.ok is true for the statuses 200 to 299
Response(status, text) ==
    [ok |-> status >= 200 /\ status <= 299, status |-> status, text |-> text]

\* json[key] of a value that is not null or undefined
Get(json, key) ==
    IF json.t = "object" /\ key \in DOMAIN json.v THEN json.v[key] ELSE Undefined

\* !!v
Truthy(v) ==
    CASE v.t \in {"undefined", "null"} -> FALSE
      [] v.t = "string"  -> v.v # ""
      [] v.t = "boolean" -> v.v
      [] OTHER           -> TRUE

\* spacemars-api.ts line 211: !res.ok && !json.error
NeedsFixUp(res, json) == ~res.ok /\ ~Truthy(Get(json, "error"))

\* spacemars-api.ts line 196-217: handleResponse; reading a property of null
\* and setting one on a primitive are TypeErrors
handleResponse(res) ==
    LET parsed == JSONParse(res.text)
        json == IF parsed.threw
                THEN Obj([success |-> Bool(res.ok),
                          error |-> IF res.ok THEN Undefined
                                    ELSE Str("HTTP " \o StatusText(res.status)
                                                 \o ": " \o res.text),
                          data |-> IF res.ok THEN Str(res.text) ELSE Undefined])
                ELSE parsed.value
    IN  IF res.ok THEN Return(json)
        ELSE IF json.t \in {"null", "undefined"}
        THEN Throw("TypeError", "Cannot read properties of null (reading 'error')")
        ELSE IF ~NeedsFixUp(res, json) THEN Return(json)
        ELSE IF json.t # "object"
        THEN Throw("TypeError", "Cannot create property 'success' on string")
        ELSE Return(Obj([k \in DOMAIN json.v \cup {"success", "error"} |->
                            CASE k = "success" -> Bool(FALSE)
                              [] k = "error" ->
                                    Str("HTTP " \o StatusText(res.status))
                              [] OTHER -> json.v[k]]))

\* requests made on one client
MaxRequests == 2

\* a client with no request made yet
ClientInit == ToolInit

\* spacemars-api.ts line 176-194: get or post: one fetch, then handleResponse
ClientRequest ==
    /\ fetches < MaxRequests
    /\ fetches' = fetches + 1
    /\ \E op \in ClientOps, status \in Statuses, text \in Bodies :
          probe' = [op |-> op, res |-> Response(status, text),
                    outcome |-> handleResponse(Response(status, text))]
    /\ UNCHANGED <<config, vendor, script, steady, tools, pc, turn, messages,
                   response, toolUseBlocks, toolResults, totalTokens, returned,
                   failure, modelCalls, dispatched, executeCalls, inFlight,
                   request, definitions, peer, solo, registered, hostVars,
                   disk>>

ClientNext == ClientRequest

ClientSpec == ClientInit /\ [][ClientNext]_vars

-----------------------------------------------------------------------------
(* PrometheusAgent with its heartbeat: start, stop, the task loop and the
   interval callbacks, runOnce taken as one awaited call *)

\* how worker.runOnce may settle
RunOnceOutcomes ==
    { Return(Bool(TRUE)), Return(Bool(FALSE)), Throw("TypeError", "fetch failed") }

\* part_005 line 118: await this.worker.runOnce() settles
RunOnce ==
    /\ hostPc = "list"
    /\ \E out \in RunOnceOutcomes : didWork' = out
    /\ hostPc' = "returned"
    /\ UNCHANGED <<hostFrame, beatVars, loopLocals, fetches, running, task,
                   solution, waitMs, polls, solves, completeCalls, submissions,
                   runLog>>

\* one agent, constructed and not yet started
AgentInit ==
    /\ HostInit
    /\ config = [provider |-> "anthropic", apiKey |-> ""]
    /\ toolExecutor = Attached

AgentNext ==
    \/ Start
    \/ VerifyConnectionSettles
    \/ Stop
    \/ LoopHead
    \/ RunOnce
    \/ AfterRunOnce
    \/ Wake
    \/ Tick
    \/ SettleBeat

AgentSpec == AgentInit /\ [][AgentNext]_vars

-----------------------------------------------------------------------------
(* The file tools called directly *)

\* what a call of a file tool does not assign
fileFrame == <<config, vendor, script, steady, tools, pc, turn, messages,
               response, toolUseBlocks, toolResults, totalTokens, returned,
               failure, modelCalls, dispatched, executeCalls, inFlight, fetches,
               request, definitions, peer, solo, registered, hostVars>>

\* no loop, no agent: the tools and the initial file system
FileInit == ToolInit

\* createFileReadTool(workDir).execute({path})
ReadFile ==
    /\ pc = "idle"
    /\ \E workDir \in WorkDirs, p \in InputPaths :
          LET done == FileRead(workDir, p, disk)
          IN  /\ probe' = [op |-> "read_file", workDir |-> workDir, path |-> p,
                           outcome |-> done.outcome, touched |-> done.touched]
              /\ disk' = done.disk
    /\ UNCHANGED fileFrame

\* createFileWriteTool(workDir).execute({path, content})
WriteFile ==
    /\ pc = "idle"
    /\ Cardinality(disk.files) < MaxFiles
    /\ \E workDir \in WorkDirs, p \in InputPaths :
          LET done == FileWrite(workDir, p, "new", disk)
          IN  /\ probe' = [op |-> "write_file", workDir |-> workDir, path |-> p,
                           outcome |-> done.outcome, touched |-> done.touched]
              /\ disk' = done.disk
    /\ UNCHANGED fileFrame

FileNext ==
    \/ ReadFile
    \/ WriteFile

FileSpec == FileInit /\ [][FileNext]_vars

-----------------------------------------------------------------------------
(* An adapter on its own: complete and completeWithTools called directly *)

\* number of calls made on one adapter
MaxAdapterCalls == 2

\* an adapter built from the settings, and the endpoint's answer to its calls
AdapterInit ==
    /\ config \in Configs
    /\ vendor = createLLMAdapter(config.provider, config.apiKey).value
    /\ steady \in WireOf(vendor) \cup IncompleteWire(vendor)
    /\ script = [i \in 1..FreeTurns |-> steady]
    /\ tools = <<>>
    /\ registered = <<>>
    /\ probe = NoProbe
    /\ pc = "idle"
    /\ turn = 0
    /\ messages = <<>>
    /\ response = Undefined
    /\ toolUseBlocks = <<>>
    /\ toolResults = <<>>
    /\ totalTokens = 0
    /\ returned = ""
    /\ failure = NoFailure
    /\ modelCalls = 0
    /\ dispatched = <<>>
    /\ executeCalls = 0
    /\ inFlight = {}
    /\ fetches = 0
    /\ request = NoRequest
    /\ NoHost
    /\ definitions = getDefinitions(tools)
    /\ peer = NoFrame
    /\ solo = NoFrame

adapterFrame == <<config, vendor, script, steady, tools, definitions,
                  hostVars, disk, registered, pc, turn,
                  messages, response, toolUseBlocks, toolResults, totalTokens,
                  returned, failure, dispatched, executeCalls, inFlight, peer,
                  solo>>

\* await llm.complete(systemPrompt, userPrompt)
Complete ==
    /\ pc = "idle"
    /\ modelCalls < MaxAdapterCalls
    /\ modelCalls' = modelCalls + 1
    /\ fetches' = fetches + FetchCount(vendor)
    /\ probe' = [op |-> "complete", wire |-> steady,
                 outcome |-> complete(vendor, steady)]
    /\ UNCHANGED <<adapterFrame, request>>

\* await llm.completeWithTools(systemPrompt, messages, tools)
CompleteWithTools ==
    /\ pc = "idle"
    /\ modelCalls < MaxAdapterCalls
    /\ modelCalls' = modelCalls + 1
    /\ fetches' = fetches + FetchCount(vendor)
    /\ probe' = [op |-> "completeWithTools", wire |-> steady,
                 outcome |-> completeWithTools(vendor, steady)]
    /\ request' = Request(vendor, systemPrompt, messages, getDefinitions(tools))
    /\ UNCHANGED adapterFrame

\* new PrometheusAgent(config): createLLMAdapter(config.llmProvider,
\* config.llmApiKey, config.llmModel) for another set of settings
CreateLLMAdapter ==
    /\ pc = "idle"
    /\ \E provider \in ProviderNames, apiKey \in {"", "sk-test"} :
          probe' = [op |-> "createLLMAdapter", provider |-> provider,
                    apiKey |-> apiKey,
                    outcome |-> createLLMAdapter(provider, apiKey)]
    /\ UNCHANGED <<adapterFrame, request, modelCalls, fetches>>

AdapterNext ==
    \/ Complete
    \/ CompleteWithTools
    \/ CreateLLMAdapter

AdapterSpec == AdapterInit /\ [][AdapterNext]_vars

-----------------------------------------------------------------------------
(* Properties of the ToolExecutor *)

\* the register calls that had been made when execute was probed
RegisteredAtProbe == SubSeq(registered, 1, probe.at)

NamesOf(history) == { history[i].definition.name : i \in 1..Len(history) }

\* the Tool the latest register call for `name` handed over
LastRegistered(history, name) ==
    history[CHOOSE i \in 1..Len(history) :
                /\ history[i].definition.name = name
                /\ \A j \in (i + 1)..Len(history) :
                        history[j].definition.name # name]

\* the message of what a tool threw: err.message of an Error, else the value
ThrownText(out) == IF out.kind = "value" THEN out.thrown.v ELSE out.message

\* the result execute owes for `call` when `tool` is the implementation
AnswersFor(result, tool, call) ==
    LET out == ToolExecute(tool, call.input)
    IN  /\ result.tool_use_id = call.id
        /\ IF out.threw
           THEN /\ result.is_error = Bool(TRUE)
                /\ Contains(result.content, ThrownText(out))
           ELSE /\ result.content = out.value
                /\ result.is_error = Undefined

\* C12: execute for a name no register call has given never throws; it
\* returns is_error = true, the call's id, and a message containing the name.
C12_UnknownToolIsAnError ==
    (probe.op = "execute" /\ probe.call.name \notin NamesOf(RegisteredAtProbe)) =>
        /\ ~probe.outcome.threw
        /\ probe.outcome.value.is_error = Bool(TRUE)
        /\ probe.outcome.value.tool_use_id = probe.call.id
        /\ Contains(probe.outcome.value.content, probe.call.name)

\* an unknown name asked of an empty and of a filled registry
C12_Witness ==
    /\ probe.op = "execute"
    /\ probe.call.name = "missing_tool"
    /\ probe.at > 0
    /\ probe.outcome.value.content = "Unknown tool: missing_tool"

\* C13: execute never throws; a tool that throws an Error or any other value
\* gives is_error = true with the failure's message and the call's id, a tool
\* that succeeds gives its output, the call's id and no error flag.
C13_ExecuteNeverThrows ==
    probe.op = "execute" =>
        /\ ~probe.outcome.threw
        /\ probe.call.name \in NamesOf(RegisteredAtProbe) =>
              AnswersFor(probe.outcome.value,
                         LastRegistered(RegisteredAtProbe, probe.call.name),
                         probe.call)

\* a tool threw a value that is not an Error, and execute reported it
C13_Witness ==
    /\ probe.op = "execute"
    /\ probe.call.name \in NamesOf(RegisteredAtProbe)
    /\ LastRegistered(RegisteredAtProbe, probe.call.name).behaviour = "throwValue"
    /\ probe.outcome.value.content = "Error: oops"
    /\ probe.outcome.value.is_error = Bool(TRUE)

\* C14: the registry holds exactly one tool per registered name, the one
\* registered last; getDefinitions has one definition per name and execute
\* reaches the last-registered implementation.
C14_LastRegistrationWins ==
    /\ { tools[i].definition.name : i \in 1..Len(tools) } = NamesOf(registered)
    /\ Len(getDefinitions(tools)) = Cardinality(NamesOf(registered))
    /\ \A i \in 1..Len(tools) :
            /\ tools[i] = LastRegistered(registered, tools[i].definition.name)
            /\ getDefinitions(tools)[i] = tools[i].definition
    /\ (probe.op = "execute" /\ probe.at = Len(registered)
            /\ probe.call.name \in NamesOf(registered)) =>
          /\ ~probe.outcome.threw
          /\ LET last == LastRegistered(registered, probe.call.name)
             IN  /\ AnswersFor(probe.outcome.value, last, probe.call)
                 /\ \A i \in 1..Len(registered) :
                        registered[i].behaviour # last.behaviour =>
                            ~AnswersFor(probe.outcome.value, registered[i],
                                        probe.call)

\* one name registered twice with different implementations, then executed
C14_Witness ==
    /\ Len(registered) = 2
    /\ registered[1].definition.name = registered[2].definition.name
    /\ registered[1].behaviour # registered[2].behaviour
    /\ Len(tools) = 1
    /\ probe.op = "execute"
    /\ probe.at = 2
    /\ probe.call.name = registered[2].definition.name

-----------------------------------------------------------------------------
(* Properties of agenticLoop *)

Terminal == {"done", "exhausted", "failed"}

\* the tool_use blocks of a turn's content, in emission order
ToolUsesOf(content) == SelectSeq(content, LAMBDA b : b.type = "tool_use")

HasText(content) == \E i \in 1..Len(content) : content[i].type = "text"

\* the text segments of a turn, in order, separated by single newlines
RECURSIVE NewlineJoinedText(_)
NewlineJoinedText(content) ==
    IF content = <<>> THEN ""
    ELSE IF Head(content).type # "text" THEN NewlineJoinedText(Tail(content))
    ELSE IF HasText(Tail(content))
         THEN Head(content).text \o "\n" \o NewlineJoinedText(Tail(content))
         ELSE Head(content).text

\* under fair scheduling every invocation reaches a terminal position
Termination == <>(pc \in Terminal)

\* the call fails in the registry: unknown name, or the tool throws
FailingCall(call) ==
    \/ \A i \in 1..Len(tools) : tools[i].definition.name # call.name
    \/ \E i \in 1..Len(tools) :
          /\ tools[i].definition.name = call.name
          /\ ToolExecute(tools[i], call.input).threw

\* C1: when the loop is about to issue the model call that follows a tool
\* turn, ToolExecutor.execute has been called exactly once per tool_use block
\* of that turn, in emission order, and the user turn handed to the call holds
\* exactly one tool_result per block, in order, with the block's id.
C1_ResultsAnswerToolUses ==
    (pc = "call" /\ turn >= 1) =>
        LET n == Len(messages)
            uses == ToolUsesOf(messages[n - 1].content)
            results == messages[n].content
        IN  /\ messages[n - 1].role = "assistant"
            /\ messages[n].role = "user"
            /\ Len(dispatched) = Len(uses)
            /\ \A i \in 1..Len(uses) :
                  dispatched[i] = [id |-> uses[i].id, name |-> uses[i].name,
                                   input |-> uses[i].input]
            /\ Len(results) = Len(uses)
            /\ \A i \in 1..Len(uses) :
                  /\ results[i].type = "tool_result"
                  /\ results[i].tool_use_id = uses[i].id

\* a turn with two tool_use blocks of different ids was dispatched and answered
C1_Witness ==
    /\ pc = "call"
    /\ turn >= 1
    /\ Len(dispatched) = 2
    /\ dispatched[1].id # dispatched[2].id

\* C2: the loop never returns a final answer from a response that contains a
\* tool_use block, whatever its stopReason.
C2_ToolUseNeverFinal ==
    pc = "done" => ToolUsesOf(response.content) = <<>>

\* every call to this provider returns a response with stopReason tool_use
AlwaysToolUseProvider ==
    \A w \in {script[i] : i \in 1..FreeTurns} \cup {steady} :
        LET out == completeWithTools(vendor, w)
        IN  ~out.threw /\ out.value.stopReason = "tool_use"

\* C3: at most 25 model calls; with a provider that answers tool_use on every
\* call the loop makes exactly 25 calls and ends in the budget-exhausted
\* outcome.
C3_ExactlyTwentyFiveCalls ==
    /\ modelCalls <= 25
    /\ pc = "exhausted" => modelCalls = 25
    /\ (AlwaysToolUseProvider /\ pc \in Terminal) =>
           (pc = "exhausted" /\ modelCalls = 25)

\* C4 as stated: every budget-exhausted return contains the warning marker.
C4_MarkerAlways ==
    pc = "exhausted" =>
        Contains(returned, "[Warning: Agent reached maximum turns limit]")

\* C4 amended: a budget-exhausted return contains the warning marker when the
\* most recent assistant turn has a text segment; otherwise it is the fixed
\* fallback string, which does not contain the marker.
C4_MarkerWhenText ==
    pc = "exhausted" =>
        IF HasText(response.content)
        THEN Contains(returned, "[Warning: Agent reached maximum turns limit]")
        ELSE /\ returned = "[Agent reached maximum turns without producing a final answer]"
             /\ ~Contains(returned, "[Warning: Agent reached maximum turns limit]")

\* the budget ran out on a turn that carried text
C4_Witness ==
    /\ pc = "exhausted"
    /\ HasText(response.content)
    /\ Contains(returned, WARNING_MARKER)

\* C5: on budget exhaustion the loop does not fail; it returns the text
\* segments of the most recent assistant turn only, joined by newlines and
\* followed by the warning marker, or the fixed fallback string when that
\* turn has no text segment.
C5_BestEffortAnswer ==
    pc = "exhausted" =>
        /\ failure = NoFailure
        /\ returned =
              IF HasText(response.content)
              THEN NewlineJoinedText(response.content)
                   \o "\n\n[Warning: Agent reached maximum turns limit]"
              ELSE "[Agent reached maximum turns without producing a final answer]"

\* the budget ran out after turns whose texts differ from the last turn's
C5_Witness ==
    /\ pc = "exhausted"
    /\ HasText(response.content)
    /\ HasText(messages[2].content)
    /\ NewlineJoinedText(messages[2].content) # NewlineJoinedText(response.content)

\* C6: the loop ends within 25 model calls, by returning a string or by
\* failing with an adapter error.
C6_EndsByReturnOrAdapterError ==
    /\ modelCalls <= 25
    /\ pc = "failed" => failure.origin = "adapter"

\* C7: a response with stopReason end_turn or max_tokens and no tool_use block
\* makes the loop return at once: no tool dispatched, no further model call,
\* and the returned string is the response's text segments joined by newlines.
C7_FinalTextAtOnce ==
    [][ /\ pc # "done"
        /\ (/\ pc = "respond"
            /\ response.stopReason \in {"end_turn", "max_tokens"}
            /\ ToolUsesOf(response.content) = <<>>)
           => /\ pc' = "done"
              /\ returned' = NewlineJoinedText(response.content)
              /\ dispatched' = <<>>
              /\ executeCalls' = executeCalls
              /\ modelCalls' = modelCalls ]_vars

\* a max_tokens response of two text segments was returned as "A\nB"
C7_Witness ==
    /\ pc = "done"
    /\ response.stopReason = "max_tokens"
    /\ Len(response.content) = 2
    /\ returned = "A\nB"

\* C8: when the first response contains only text segments, the loop ends in
\* DONE on the first turn after one model call and no tool dispatch, and
\* returns the newline-joined text of that turn.
C8_TextOnlyEndsFirstTurn ==
    (Len(messages) >= 2 /\ ToolUsesOf(messages[2].content) = <<>>) =>
        /\ pc \in {"respond", "done"}
        /\ turn = 0
        /\ modelCalls = 1
        /\ executeCalls = 0
        /\ pc = "done" => returned = NewlineJoinedText(messages[2].content)

MalformedArguments(v, wire) ==
    /\ wire.kind = "json"
    /\ CASE v = "openai" ->
              /\ wire.data.choices # <<>>
              /\ wire.data.choices[1].message.tool_calls # Undefined
              /\ \E i \in 1..Len(wire.data.choices[1].message.tool_calls.v) :
                    LET p == JSONParse(wire.data.choices[1].message.tool_calls.v[i]
                                           .function.arguments)
                    IN  p.threw \/ p.value.t # "object"
         [] v = "google" ->
              /\ wire.data.candidates # <<>>
              /\ \E i \in 1..Len(wire.data.candidates[1].content.parts) :
                    LET part == wire.data.candidates[1].content.parts[i]
                    IN  /\ "functionCall" \in DOMAIN part
                        /\ part.functionCall.args.t # "object"
         [] OTHER -> FALSE

\* C10: malformed tool arguments never halt the loop: no exception leaves it
\* in a turn whose response carries them.
C10_MalformedArgumentsNeverHalt ==
    (pc = "failed" /\ turn < MAX_AGENT_TURNS) => ~MalformedArguments(vendor, NextWire)

\* a turn whose content carries at least one tool result
CarriesToolResults(m) ==
    m.isArray /\ \E j \in 1..Len(m.content) : m.content[j].type = "tool_result"

\* C15: the conversation starts with the task prompt as its one user turn and
\* alternates user, assistant, user, ...; what is handed to completeWithTools
\* ends with a user turn; tool results are carried only by user turns.
C15_ConversationAlternates ==
    /\ Len(messages) >= 1
    /\ messages[1] = Message("user", FALSE, userPrompt)
    /\ \A i \in 1..Len(messages) :
          /\ messages[i].role = IF i % 2 = 1 THEN "user" ELSE "assistant"
          /\ CarriesToolResults(messages[i]) => messages[i].role = "user"
    /\ pc = "awaitModel" => messages[Len(messages)].role = "user"

\* a conversation with a tool-result turn is handed to completeWithTools
C15_Witness ==
    /\ pc = "awaitModel"
    /\ Len(messages) = 5
    /\ CarriesToolResults(messages[3])
    /\ CarriesToolResults(messages[5])

\* C16: at most one awaited operation is in flight: execute number i starts
\* only when the i - 1 executes before it have settled, and completeWithTools
\* starts only when every tool of the previous turn has settled.
C16_OneOperationInFlight ==
    /\ Cardinality(inFlight) <= 1
    /\ \A i \in 1..Len(toolUseBlocks) :
          ToolExecution(i) \in inFlight => Len(toolResults) = i - 1
    /\ ModelCall \in inFlight =>
          /\ Len(toolResults) = Len(toolUseBlocks)
          /\ \A i \in 1..Len(toolUseBlocks) : ToolExecution(i) \notin inFlight

\* the second tool of a turn is running and the first one has settled
C16_Witness ==
    /\ inFlight = {ToolExecution(2)}
    /\ Len(toolResults) = 1
    /\ Len(toolUseBlocks) >= 2

\* how far an invocation has come
Progress(frame) ==
    <<frame.pc, frame.turn, Len(frame.dispatched), Len(frame.toolResults),
      frame.inFlight>>

\* C17: of two invocations interleaved on one TaskWorker, each has at every
\* point the conversation, dispatch sequence, turn count and returned string
\* of the other at the same point, and ends as the invocation that ran alone.
C17_NoInterference ==
    solo # NoFrame =>
        /\ Progress(peer) = Progress(Frame) => peer = Frame
        /\ pc \in Terminal => Frame = solo
        /\ peer.pc \in Terminal => peer = solo

\* one invocation awaits the model while the other awaits a tool, both in
\* the middle of a conversation
C17_Witness ==
    /\ solo # NoFrame
    /\ pc = "awaitModel"
    /\ turn = 1
    /\ peer.pc = "tools"
    /\ peer.inFlight # {}
    /\ Len(solo.messages) >= 4

\* C11: the loop fails only with the error completeWithTools threw in the
\* current turn; it then has returned no string, dispatched no tool after the
\* failing call and issued no further model call.
C11_OnlyAdapterErrorsLeave ==
    pc = "failed" =>
        /\ failure.origin = "adapter"
        /\ failure.error = completeWithTools(vendor, NextWire)
        /\ returned = ""
        /\ dispatched = <<>>
        /\ modelCalls = turn + 1

-----------------------------------------------------------------------------
(* Properties of the adapters *)

AdapterOps == {"complete", "completeWithTools"}

\* C18: without a credential no network request is made; completeWithTools
\* gives exactly one text segment, the diagnostic string, with end_turn, and
\* complete gives the same string; the loop ends after one model call and no
\* dispatch, returning that string.
C18_PlaceholderWithoutCredential ==
    config.apiKey = "" =>
        /\ vendor = "placeholder"
        /\ fetches = 0
        /\ complete(vendor, NextWire) =
              Return(LLMResponse(PLACEHOLDER_TEXT, "placeholder", Undefined))
        /\ pc = "respond" =>
              /\ response.content = <<TextBlock(PLACEHOLDER_TEXT)>>
              /\ response.stopReason = "end_turn"
        /\ pc \in Terminal =>
              /\ pc = "done"
              /\ returned = PLACEHOLDER_TEXT
              /\ modelCalls = 1
              /\ executeCalls = 0
        /\ modelCalls <= 1
        /\ executeCalls = 0

\* a loop has run to its end on an agent configured without a credential
C18_Witness ==
    /\ config = [provider |-> "anthropic", apiKey |-> ""]
    /\ pc = "done"
    /\ modelCalls = 1
    /\ returned = PLACEHOLDER_TEXT

\* C19: for the three vendor adapters and both operations, a non-success
\* status makes the call throw an error carrying the status code and the
\* body; every call issues exactly one request.
C19_HttpErrorThrownOnce ==
    vendor # "placeholder" =>
        /\ fetches = modelCalls
        /\ (probe.op \in AdapterOps /\ probe.wire.kind = "http") =>
              /\ probe.outcome.threw
              /\ probe.outcome.kind = "Error"
              /\ Contains(probe.outcome.message, StatusText(probe.wire.status))
              /\ Contains(probe.outcome.message, probe.wire.text)

\* OpenAI's complete has answered a 429 with an error
C19_Witness ==
    /\ vendor = "openai"
    /\ probe.op = "complete"
    /\ probe.wire = HttpError(429, "rate limited")
    /\ probe.outcome.threw
    /\ fetches = 2

\* a success response without a field the operation reads
LacksExpectedField(v, op, wire) ==
    /\ wire.kind = "json"
    /\ CASE v = "anthropic" -> "content" \notin DOMAIN wire.data
         [] v = "openai" ->
              \/ "choices" \notin DOMAIN wire.data
              \/ wire.data.choices = <<>>
              \/ "message" \notin DOMAIN wire.data.choices[1]
              \/ /\ wire.data.choices[1].message.content \in {Null, Undefined}
                 /\ \/ op = "complete"
                    \/ wire.data.choices[1].message.tool_calls = Undefined
         [] v = "google" ->
              \/ "candidates" \notin DOMAIN wire.data
              \/ wire.data.candidates = <<>>
              \/ "content" \notin DOMAIN wire.data.candidates[1]
              \/ "parts" \notin DOMAIN wire.data.candidates[1].content
         [] OTHER -> FALSE

\* C20: a success response that lacks an expected field makes the adapter
\* fail; it is never answered with an empty completion.
C20_MissingFieldsFail ==
    (probe.op \in AdapterOps /\ LacksExpectedField(vendor, probe.op, probe.wire)) =>
        probe.outcome.threw

\* the stop reasons of the LLMToolResponse type
StopReasons == {"end_turn", "tool_use", "max_tokens"}

\* C21: every completion completeWithTools returns has a stopReason in
\* {end_turn, tool_use, max_tokens}, whatever label the vendor sent.
C21_StopReasonInClosedSet ==
    (probe.op = "completeWithTools" /\ ~probe.outcome.threw) =>
        probe.outcome.value.stopReason \in StopReasons

\* the stop reason the normalisation rule gives an OpenAI choice
ExpectedOpenAIStop(choice) ==
    IF \/ choice.finish_reason = "tool_calls"
       \/ /\ choice.message.tool_calls # Undefined
          /\ choice.message.tool_calls.v # <<>>
    THEN "tool_use"
    ELSE IF choice.finish_reason = "length" THEN "max_tokens"
    ELSE "end_turn"

\* the stop reason the normalisation rule gives a Google candidate
ExpectedGoogleStop(parts) ==
    IF \E i \in 1..Len(parts) : "functionCall" \in DOMAIN parts[i]
    THEN "tool_use"
    ELSE "end_turn"

\* C22: OpenAI reports tool_use when the response carries tool calls or
\* finish_reason is tool_calls, else max_tokens for length, else end_turn;
\* Google reports tool_use when a functionCall part is present.
C22_StopReasonNormalised ==
    (probe.op = "completeWithTools" /\ ~probe.outcome.threw) =>
        /\ vendor = "openai" =>
              probe.outcome.value.stopReason =
                  ExpectedOpenAIStop(probe.wire.data.choices[1])
        /\ vendor = "google" =>
              probe.outcome.value.stopReason =
                  ExpectedGoogleStop(GoogleParts(probe.wire.data))

\* the tool_result blocks of the conversation, in order
RECURSIVE ToolResultsOf(_)
ToolResultsOf(msgs) ==
    IF msgs = <<>> THEN <<>>
    ELSE (IF Head(msgs).isArray
          THEN SelectSeq(Head(msgs).content, LAMBDA b : b.type = "tool_result")
          ELSE <<>>) \o ToolResultsOf(Tail(msgs))

\* the wire elements of a request that stand for tool results
RECURSIVE Flatten(_)
Flatten(seqs) ==
    IF seqs = <<>> THEN <<>> ELSE Head(seqs) \o Flatten(Tail(seqs))

WireToolResults(req) ==
    CASE req.vendor = "anthropic" ->
            SelectSeq(Flatten([i \in 1..Len(req.messages) |->
                                  IF req.messages[i].content.t = "string" THEN <<>>
                                  ELSE req.messages[i].content.v]),
                      LAMBDA b : b.type = "tool_result")
      [] req.vendor = "openai" ->
            SelectSeq(req.messages, LAMBDA m : m.role = "tool")
      [] req.vendor = "google" ->
            SelectSeq(Flatten([i \in 1..Len(req.contents) |-> req.contents[i].parts]),
                      LAMBDA part : "functionResponse" \in DOMAIN part)
      [] OTHER -> <<>>

\* what a wire element says of the triple; a member the wire format has no
\* place for reads as absent, an absent error flag reads as "no error"
WireTriple(req, w) ==
    CASE req.vendor = "anthropic" ->
            [id |-> w.tool_use_id, content |-> w.content,
             error |-> "is_error" \in DOMAIN w /\ w.is_error]
      [] req.vendor = "openai" ->
            [id |-> w.tool_call_id, content |-> w.content,
             error |-> "is_error" \in DOMAIN w /\ w.is_error]
      [] req.vendor = "google" ->
            [id |-> IF "id" \in DOMAIN w.functionResponse
                    THEN w.functionResponse.id ELSE "absent",
             content |-> w.functionResponse.response.content,
             error |-> "is_error" \in DOMAIN w.functionResponse.response
                       /\ w.functionResponse.response.is_error]

\* C23: every tool_result of the conversation sent with a completeWithTools
\* request appears in the vendor's wire format, in order, with the id of the
\* invocation it answers, its content and its error flag.
C23_ToolResultTripleCarried ==
    (pc = "awaitModel" /\ request # NoRequest) =>
        LET sent == ToolResultsOf(messages)
            wire == WireToolResults(request)
        IN  /\ Len(wire) = Len(sent)
            /\ \A i \in 1..Len(sent) :
                   WireTriple(request, wire[i]) =
                       [id |-> sent[i].tool_use_id, content |-> sent[i].content,
                        error |-> sent[i].is_error = Bool(TRUE)]

\* the wire response given to the k-th completeWithTools call of the loop
WireOfCall(k) == IF k <= FreeTurns THEN script[k] ELSE steady

\* the usage count a vendor's response body states, 0 when it states none
WireUsage(wire) ==
    CASE wire.kind # "json" -> 0
      [] vendor = "anthropic" /\ wire.data.usage # Undefined ->
            wire.data.usage.input_tokens + wire.data.usage.output_tokens
      [] vendor = "openai" /\ wire.data.usage # Undefined ->
            wire.data.usage.total_tokens
      [] vendor = "google" /\ wire.data.usageMetadata # Undefined ->
            wire.data.usageMetadata.totalTokenCount
      [] OTHER -> 0

\* whether a vendor's response body states a usage count
StatesUsage(wire) ==
    /\ wire.kind = "json"
    /\ \/ vendor = "anthropic" /\ wire.data.usage # Undefined
       \/ vendor = "openai" /\ wire.data.usage # Undefined
       \/ vendor = "google" /\ wire.data.usageMetadata # Undefined

RECURSIVE UsageUpTo(_)
UsageUpTo(n) == IF n = 0 THEN 0 ELSE UsageUpTo(n - 1) + WireUsage(WireOfCall(n))

\* the completeWithTools calls that have returned a response
Answered == Len(SelectSeq(messages, LAMBDA m : m.role = "assistant"))

\* C27: the token total is the sum of the usage counts of the responses
\* received so far, a response without a count adding 0, and a response whose
\* body has no usage field is reported with tokensUsed absent.
C27_TokenTotalIsSum ==
    /\ totalTokens = UsageUpTo(Answered)
    /\ (pc = "respond" /\ ~StatesUsage(WireOfCall(Answered)))
           => response.tokensUsed = Undefined
    /\ (pc = "respond" /\ StatesUsage(WireOfCall(Answered)))
           => response.tokensUsed = Num(WireUsage(WireOfCall(Answered)))

\* a counted response has been followed by one without a count
C27_Witness ==
    /\ Answered >= 2
    /\ pc = "respond"
    /\ response.tokensUsed = Undefined
    /\ totalTokens = WireUsage(WireOfCall(1))
    /\ totalTokens > 0

\* the name and description of each tool a request declares, in order
DeclaredTools(req) ==
    CASE req.tools = Undefined -> <<>>
      [] req.vendor = "anthropic" -> req.tools.v
      [] req.vendor = "openai" ->
            [i \in 1..Len(req.tools.v) |-> req.tools.v[i].function]
      [] req.vendor = "google" -> req.tools.v[1].functionDeclarations

\* C30: no step of agenticLoop, a ToolExecutor.execute call included, changes
\* the registry or the definitions read at loop start, and every
\* completeWithTools request that is sent declares exactly the registry's
\* definitions.
C30_RegistryFrame ==
    [][/\ tools' = tools
       /\ definitions' = definitions
       /\ (pc' = "awaitModel" /\ request' # NoRequest =>
              DeclaredTools(request') = [i \in 1..Len(tools) |-> tools[i].definition])
      ]_vars

\* a later request has been sent after a successful call, a failed call and
\* a call of an unknown tool have all been executed
C30_Witness ==
    /\ pc = "awaitModel"
    /\ modelCalls >= 2
    /\ request.tools # Undefined
    /\ LET results == ToolResultsOf(messages)
       IN  /\ \E i \in 1..Len(results) : results[i].is_error = Undefined
           /\ \E i \in 1..Len(results) :
                  /\ results[i].is_error = Bool(TRUE)
                  /\ results[i].content = "Unknown tool: missing_tool"
           /\ \E i \in 1..Len(results) :
                  /\ results[i].is_error = Bool(TRUE)
                  /\ results[i].content # "Unknown tool: missing_tool"

\* C24: a second run of agenticLoop with the same prompts, registry, provider
\* answers and tool behaviour ends as the first did, returns the same string
\* and makes the same number of ToolExecutor.execute calls.
C24_RerunIsIdentical ==
    (solo # NoFrame /\ pc \in Terminal) =>
        /\ pc = solo.pc
        /\ returned = solo.returned
        /\ executeCalls = solo.executeCalls

\* both runs returned a text after dispatching tools
C24_Witness ==
    /\ solo # NoFrame
    /\ pc = "done"
    /\ solo.pc = "done"
    /\ returned # ""
    /\ executeCalls >= 2
    /\ solo.executeCalls >= 2

-----------------------------------------------------------------------------
(* Properties of the host: taskLoop, runOnce, solveTask, solveDirectTask *)

\* a solve has returned to its caller with a value
Solved == hostPc \in {"submit", "directDone"} /\ ~solution.threw

\* C25: without a ToolExecutor every solveTask or solveDirectTask call makes
\* exactly one complete call, no completeWithTools call and no tool call, and
\* returns the completion's content; with one it runs agenticLoop, returns
\* the loop's string and never calls complete.
C25_SolveBranch ==
    /\ toolExecutor = Null =>
          /\ completeCalls = solves
          /\ modelCalls = 0
          /\ executeCalls = 0
          /\ pc = "idle"
          /\ Solved => solution.value = complete(vendor, NextWire).value.content
    /\ toolExecutor # Null =>
          /\ completeCalls = 0
          /\ solves > 0 => pc # "idle"
          /\ Solved => (modelCalls >= 1 /\ solution.value = returned)

\* the second task of a worker without executor has been solved
C25_Witness ==
    /\ toolExecutor = Null
    /\ hostPc = "submit"
    /\ task # Null
    /\ solves = 2
    /\ completeCalls = 2
    /\ solution.value # ""

\* an outcome that is a thrown error
Threw(outcome) == "threw" \in DOMAIN outcome /\ outcome.threw

\* the solve of a claimed task is about to end with an error
SolveFailed ==
    /\ task # Null
    /\ \/ hostPc = "loop" /\ pc = "failed"
       \/ hostPc = "complete" /\ complete(vendor, NextWire).threw

\* C26: an error of the solve of a claimed task makes runOnce return false
\* with no submitResult call; an error of the list or claim request leaves
\* runOnce and is followed by the error pause; every runOnce outcome leads to
\* a pause and then back to the test of running, which starts the next
\* runOnce while the agent runs; the loop is left only when it does not.
C26_FailuresKeepLoopAlive ==
    [][/\ (SolveFailed /\ hostPc' # hostPc) =>
              /\ hostPc' = "returned"
              /\ didWork' = Return(Bool(FALSE))
              /\ submissions' = submissions
       /\ (hostPc \in {"list", "claim"} /\ Threw(didWork') /\ hostPc' # hostPc) =>
              hostPc' = "returned"
       /\ (hostPc = "returned" /\ hostPc' # hostPc) =>
              /\ hostPc' = "sleep"
              /\ Threw(didWork) => waitMs' = ERROR_BACKOFF_MS
       /\ (hostPc = "sleep" /\ hostPc' # hostPc) => hostPc' = "loopHead"
       /\ (hostPc = "loopHead" /\ hostPc' # hostPc) =>
              hostPc' = IF running THEN "list" ELSE "exited"
       /\ hostPc' = "exited" => ~running'
      ]_vars

\* the loop polls again after a task whose agentic solve failed
C26_Witness ==
    /\ hostPc = "list"
    /\ polls = 2
    /\ running
    /\ pc = "failed"
    /\ waitMs = TASK_LOOP_INTERVAL_MS * 2
    /\ submissions = <<>>

\* C28: after a runOnce that returned true the loop pauses 60 s, after one
\* that returned false 120 s, after one that threw 120 s; the test of running
\* that starts a runOnce is reached only from start() or from such a pause.
C28_BackoffBetweenRuns ==
    [][/\ (hostPc = "returned" /\ hostPc' # hostPc) =>
              /\ hostPc' = "sleep"
              /\ waitMs' = CASE Threw(didWork) -> 120000
                             [] didWork = Return(Bool(TRUE)) -> 60000
                             [] OTHER -> 120000
       /\ polls' # polls => (polls' = polls + 1 /\ hostPc = "loopHead")
       /\ (hostPc' = "loopHead" /\ hostPc # "loopHead") =>
              \/ hostPc = "verify" /\ polls = 0
              \/ hostPc = "sleep" /\ waitMs \in {60000, 120000}
      ]_vars

\* the pause after a second runOnce, which completed a task, follows the
\* pause after a first one that did not
C28_Witness ==
    /\ hostPc = "sleep"
    /\ polls = 2
    /\ waitMs = 60000
    /\ didWork = Return(Bool(TRUE))
    /\ Len(submissions) = 1

-----------------------------------------------------------------------------
(* Properties of the file tools *)

FileOps == {"read_file", "write_file"}

\* the path is the working directory or lies below it
InsideWorkDir(segs, workDir) ==
    /\ Len(segs) >= Len(workDir.segs)
    /\ SubSeq(segs, 1, Len(workDir.segs)) = workDir.segs

\* C29: read_file and write_file hand only paths inside the working
\* directory to the file system, an input that resolves outside it fails with
\* the path-traversal error before any file-system call, and no file or
\* directory outside the working directory is created or changed.
C29_FileSandbox ==
    /\ probe.op \in FileOps =>
          /\ \A t \in probe.touched : InsideWorkDir(t, probe.workDir)
          /\ ~InsideWorkDir(PathResolve(probe.workDir, probe.path), probe.workDir) =>
                /\ probe.outcome.threw
                /\ StartsWith(probe.outcome.message, "Path traversal blocked")
                /\ probe.touched = {}
    /\ \A f \in disk.files :
          f \in InitialDisk.files \/ InsideWorkDir(f.path, [segs |-> <<"work">>])
    /\ \A dir \in disk.dirs :
          dir \in InitialDisk.dirs \/ InsideWorkDir(dir, [segs |-> <<"work">>])

\* C38: createLLMAdapter never throws; it gives the placeholder adapter when
\* the key is empty or the provider name is not anthropic, openai or google
\* up to letter case, and that vendor's adapter otherwise.
C38_FactoryNeverThrows ==
    probe.op = "createLLMAdapter" =>
        /\ ~probe.outcome.threw
        /\ probe.outcome.value =
              IF probe.apiKey = "" \/ ToLowerCase(probe.provider) \notin PROVIDERS
              THEN "placeholder"
              ELSE ToLowerCase(probe.provider)


\* C34: every user turn appended after the initial prompt carries at least
\* one tool_result, and no model call is made for a response that had no
\* tool_use block, whatever stopReason the adapter delivered.
C34_NoEmptyToolResultTurn ==
    /\ \A i \in 2..Len(messages) :
          messages[i].role = "user" => messages[i].content # <<>>
    /\ (pc = "awaitModel" /\ response # Undefined) =>
          FilterToolUse(response.content) # <<>>


\* C35: for the OpenAI and Google adapters a structured completion has
\* stopReason tool_use exactly when its content holds a tool_use block.
C35_ToolUseIffBlocks ==
    (/\ probe.op = "completeWithTools"
     /\ ~probe.outcome.threw
     /\ vendor \in {"openai", "google"}) =>
        (probe.outcome.value.stopReason = "tool_use"
            <=> FilterToolUse(probe.outcome.value.content) # <<>>)


\* the number of tool_use blocks over the assistant turns of a conversation
RECURSIVE ToolUseCount(_)
ToolUseCount(msgs) ==
    IF msgs = <<>> THEN 0
    ELSE (IF Head(msgs).role = "assistant"
          THEN Len(FilterToolUse(Head(msgs).content))
          ELSE 0) + ToolUseCount(Tail(msgs))

\* at budget exhaustion every tool_use block of the 25 turns was executed
\* and the conversation ends with a tool-result turn sent to no model call
ExhaustionAccounts ==
    pc = "exhausted" =>
        /\ modelCalls = MAX_AGENT_TURNS
        /\ executeCalls = ToolUseCount(messages)
        /\ Len(messages) = 2 * MAX_AGENT_TURNS + 1
        /\ messages[Len(messages)] = ToolResultsMessage(toolResults)
        /\ Len(toolResults) = Len(FilterToolUse(response.content))

\* a turn that is not final leaves the dispatch loop only with every one of
\* its tool_use blocks handed to execute
TurnDispatchesAll ==
    (pc = "tools" /\ pc' # "tools") =>
        /\ pc' = "call"
        /\ Len(dispatched) = Len(FilterToolUse(response.content))
        /\ executeCalls' = ToolUseCount(messages)

\* C36: the tool calls of a turn that is not final are always dispatched,
\* those of the 25th turn included; at budget exhaustion the execute calls
\* number the tool_use blocks of all 25 turns and the conversation ends with
\* a user tool-result turn that no model call receives.
C36_LastTurnStillDispatched ==
    /\ []ExhaustionAccounts
    /\ [][TurnDispatchesAll]_vars


\* the positions of the assistant messages of a wire message list
AssistantAt(wire) == {i \in 1..Len(wire) : wire[i].role = "assistant"}

\* the wire messages after position i up to the next assistant message
Following(wire, i) ==
    LET later == {j \in AssistantAt(wire) : j > i}
        stop == IF later = {} THEN Len(wire) + 1
                ELSE CHOOSE j \in later : \A l \in later : j <= l
    IN  SubSeq(wire, i + 1, stop - 1)

\* the tool_calls entries of a wire assistant message
ToolCallsOf(wireMsg) ==
    IF "tool_calls" \in DOMAIN wireMsg THEN wireMsg.tool_calls ELSE <<>>

\* the roles of a wire list with each run of tool messages counted as the
\* one user turn it stands for
RECURSIVE TurnRoles(_, _)
TurnRoles(wire, inRun) ==
    IF wire = <<>> THEN <<>>
    ELSE IF Head(wire).role = "tool"
    THEN (IF inRun THEN <<>> ELSE <<"user">>) \o TurnRoles(Tail(wire), TRUE)
    ELSE <<Head(wire).role>> \o TurnRoles(Tail(wire), FALSE)

\* C37: in the OpenAI wire message list built from the loop's conversation
\* the system message comes first, the turns keep their order, and every
\* tool_calls entry of an assistant message is followed, before the next
\* assistant message, by exactly one tool message with its id, in order.
C37_OpenAIWireOrder ==
    (vendor = "openai" /\ pc = "awaitModel") =>
        LET wire == request.messages
            turns == Tail(wire)
            asst == SelectSeq(messages, LAMBDA m : m.role = "assistant")
            wasst == SelectSeq(turns, LAMBDA m : m.role = "assistant")
        IN  /\ wire[1] = [role |-> "system", content |-> systemPrompt]
            /\ \A i \in 2..Len(wire) : wire[i].role # "system"
            /\ TurnRoles(turns, FALSE) = [i \in 1..Len(messages) |-> messages[i].role]
            /\ turns[1] = [role |-> "user", content |-> userPrompt]
            /\ Len(wasst) = Len(asst)
            /\ \A n \in 1..Len(asst) :
                  LET uses == ToolUsesOf(asst[n].content)
                      calls == ToolCallsOf(wasst[n])
                  IN  /\ Len(calls) = Len(uses)
                      /\ \A c \in 1..Len(uses) : calls[c].id = uses[c].id
            /\ \A i \in AssistantAt(wire) :
                  LET calls == ToolCallsOf(wire[i])
                      after == Following(wire, i)
                  IN  calls # <<>> =>
                        /\ Len(after) = Len(calls)
                        /\ \A c \in 1..Len(calls) :
                              /\ after[c].role = "tool"
                              /\ after[c].tool_call_id = calls[c].id

\* a request carrying an assistant message with two tool calls, answered by
\* two tool messages, and a later assistant message
C37_Witness ==
    /\ vendor = "openai"
    /\ pc = "awaitModel"
    /\ Len(messages) >= 5
    /\ \E i \in AssistantAt(request.messages) :
          /\ Len(ToolCallsOf(request.messages[i])) = 2
          /\ Len(Following(request.messages, i)) = 2
          /\ Following(request.messages, i)[2].tool_call_id = "call_2"


\* the order of the awaited steps of one runOnce
Lifecycle == <<"getAvailableTasks", "claimTask", "solveTask", "submitResult">>

\* a request settled with an envelope that reports success
ReportedSuccess(step) == ~step.outcome.threw /\ step.outcome.value.success

\* a request settled with an envelope that reports failure
ReportedFailure(step) == ~step.outcome.threw /\ ~step.outcome.value.success

\* the listing settled with a successful envelope holding at least one task
ListedTasks(step) ==
    /\ ReportedSuccess(step)
    /\ step.outcome.value.data # Undefined
    /\ step.outcome.value.data.v # <<>>

\* the steps taken so far follow the lifecycle, each at most once, each
\* only after the one before it succeeded, each for the first listed task
RunOnceOrdered ==
    LET n == Len(runLog)
    IN  /\ n <= Len(Lifecycle)
        /\ \A i \in 1..n : runLog[i].op = Lifecycle[i]
        /\ n >= 2 =>
              /\ ListedTasks(runLog[1])
              /\ runLog[2].arg = Str(runLog[1].outcome.value.data.v[1].id)
        /\ n >= 3 =>
              /\ ReportedSuccess(runLog[2])
              /\ runLog[3].arg = runLog[2].arg
        /\ n >= 4 =>
              /\ ~runLog[3].outcome.threw
              /\ runLog[4].arg = runLog[2].arg
              /\ submissions[Len(submissions)] =
                    [taskId |-> runLog[2].arg.v,
                     solution |-> runLog[3].outcome.value]
        /\ (hostPc \in {"solve", "loop", "complete"} /\ task # Null) =>
              n = 2 /\ ReportedSuccess(runLog[2])
        /\ hostPc = "submit" => n = 3 /\ ~runLog[3].outcome.threw

\* runOnce returns true exactly when the submit reported success, and false
\* with no solve and no submit after a failed or empty listing or a failed
\* claim
RunOnceResult ==
    hostPc = "returned" =>
        LET n == Len(runLog)
        IN  /\ ~didWork.threw =>
                  (didWork.value = Bool(TRUE)
                      <=> (n = 4 /\ ReportedSuccess(runLog[4])))
            /\ ((n = 1 /\ ~runLog[1].outcome.threw /\ ~ListedTasks(runLog[1]))
                    \/ (n = 2 /\ ReportedFailure(runLog[2]))) =>
                  didWork = Return(Bool(FALSE))
            /\ (n >= 1 /\ ~runLog[1].outcome.threw /\ ~ListedTasks(runLog[1])) =>
                  n = 1
            /\ (n >= 2 /\ ~ReportedSuccess(runLog[2])) => n = 2

\* solveTask starts only in a runOnce whose claim succeeded, submitResult is
\* sent only in one whose solveTask returned
StepsStartInOrder ==
    /\ (solves' # solves /\ task # Null) =>
          Len(runLog) = 2 /\ ReportedSuccess(runLog[2])
    /\ submissions' # submissions =>
          /\ Len(submissions') = Len(submissions) + 1
          /\ Len(runLog) = 3
          /\ ~runLog[3].outcome.threw

C32_StopIsFinal ==
    /\ [](stopped => timers = {})
    /\ [][stopped => polls' = polls]_vars


\* a settled request after which beat has something to complain about
FailedBeatLine(line) ==
    line.level = "warn"
        /\ (\/ StartsWith(line.text, "[Heartbeat] Failed: ")
            \/ StartsWith(line.text, "[Heartbeat] Warning: "))

\* beats start one at a time, the first as the interval is scheduled and the
\* others only while it is; a beat that ends leaves the interval alone
BeatSteps ==
    /\ beats' # beats =>
          /\ beats' = beats + 1
          /\ beating' = beating + 1
          /\ timers' # {}
    /\ (timers = {} /\ timers' # {}) => beats' = beats + 1
    /\ (timers = {} /\ timers' = {}) => beats' = beats
    /\ beating' < beating =>
          /\ timers' = timers
          /\ heartbeatHandle' = heartbeatHandle
          /\ beats' = beats
          /\ Len(beatLog') = Len(beatLog) + 1

\* C33: startHeartbeat sends one heartbeat at once and then one per tick
\* until stopHeartbeat, after which none is started; a heartbeat that
\* returns a failure envelope or throws is logged and swallowed: nothing is
\* rejected unhandled, the interval stays scheduled, later beats still fire.
C33_HeartbeatSwallowsFailures ==
    /\ [](\A i \in 1..Len(beatLog) :
             /\ beatLog[i].level # "unhandledRejection"
             /\ beatLog[i].level = "log" \/ FailedBeatLine(beatLog[i]))
    /\ [](Len(beatLog) + beating = beats)
    /\ []((timers # {} /\ beats < MaxBeats) => ENABLED Tick)
    /\ [][BeatSteps]_vars

\* the first beat threw, a later one failed with an envelope, and a third
\* beat was started on the interval that is still scheduled
C33_Witness ==
    /\ Len(beatLog) = 2
    /\ beatLog[1] = Line("warn", "[Heartbeat] Failed: fetch failed")
    /\ beatLog[2] = Line("warn", "[Heartbeat] Warning: HTTP 500")
    /\ beats = 3
    /\ beating = 1
    /\ timers = {IntervalHandle}


\* C39: for every response with a non-success status the envelope returned
\* has success false and a non-empty error, whether the body is JSON (with
\* or without its own success and error fields) or not; a body that cannot
\* be parsed never makes the call throw.
C39_FailedCallNeverSucceeds ==
    probe.op \in ClientOps =>
        /\ ~probe.res.ok =>
              /\ ~probe.outcome.threw
              /\ Get(probe.outcome.value, "success") = Bool(FALSE)
              /\ Get(probe.outcome.value, "error").t = "string"
              /\ Get(probe.outcome.value, "error").v # ""
        /\ JSONParse(probe.res.text).threw => ~probe.outcome.threw

=============================================================================
